---- MODULE Spec2Model ----
(***************************************************************************)
(* TreasurMAP: an IMAP4rev2-style server.  The model covers the per-verb   *)
(* handler workers (src/src/handlers), the in-memory authenticator and     *)
(* index they call, the synchronous handlers of the first revision         *)
(* (src/src/handler.rs, src/src/parser.rs) and the per-connection runtime  *)
(* (reader, writer, state manager) that feeds the workers.                 *)
(***************************************************************************)
EXTENDS Naturals, Sequences, FiniteSets, TLC

\* ------------------------------------------------------------------ bounds
\* commands one client may send on one connection (connection runtime)
MaxCmds == 3
\* requests the worker harness may inject (handlers::tests::test_handle)
MaxInject == 1
\* max_connections of the accept loop
MaxConnections == 2
\* lines a client writes to the threaded server, and pieces of a line
MaxLines == 2
MaxPieces == 4
\* commands of each client when two connections are open
MaxCmdsEach == 1
\* calls of get_mailbox on one index
MaxLookups == 3
\* requests sent to the authenticator started on its own
MaxAuthRequests == 2
\* ticks of the clock of the threaded server
MaxTime == 3
\* connections and messages of the broker
MaxPeerConns == 3
MaxMessages == 1

\* ------------------------------------------------------------- option type
None == << >>
Some(x) == << x >>
IsSome(o) == Len(o) = 1
Unwrap(o) == o[1]

\* ------------------------------------------------------------ connections
Conns == {"A", "B"}
\* the connection of the specifications with a single client
OneConn == {"A"}

\* ------------------------------------------------------------------ codec
Tags == {"a1", "a2"}
Untagged == "*"
Statuses == {"OK", "BAD", "NO"}

\* Response::new(tag, status, message): a status line; message is kept as
\* the sequence of the pieces format! joins
ResponseNew(tag, status, message) ==
    [tag |-> tag, status |-> status, message |-> message]

\* Response::from(line), line given as its tokens <<tag, second, rest...>>:
\* the second token is the status when it is one of OK, BAD, NO, and the
\* first word of the message otherwise
ResponseFrom(tokens) ==
    IF tokens[2] \in Statuses
    THEN [tag |-> tokens[1], status |-> tokens[2],
          message |-> SubSeq(tokens, 3, Len(tokens))]
    ELSE [tag |-> tokens[1], status |-> "NONE",
          message |-> SubSeq(tokens, 2, Len(tokens))]

HasStatus(line) == line.status \in Statuses
IsUntagged(line) == line.tag = Untagged

\* Command: tag, verb (stored uppercased), args
Verbs == {"LOGIN", "LOGOUT", "SELECT", "FETCH"}
Command(tag, verb, args) == [tag |-> tag, verb |-> verb, args |-> args]
NumArgs(command) == Len(command.args)
Arg(command, i) == command.args[i]

\* ------------------------------------------------------------ user store
Hash(password) == << "2b", password >>
User(name, password) == [name |-> name, password_hash |-> Hash(password)]

\* InMemoryUserStore::new().with_user(..).with_user(..)
UserStore == { User("alice", "pw1"), User("bob", "pw2") }

\* InMemoryUserStore::get
UserStoreGet(username) ==
    IF \E u \in UserStore : u.name = username
    THEN Some(CHOOSE u \in UserStore : u.name = username)
    ELSE None

\* BasicAuth::from and BasicAuth::authenticate (bcrypt verify)
BasicAuthFrom(username, password) == [username |-> username, password |-> password]
BasicAuthAuthenticate(principal, user) == user.password_hash = Hash(principal.password)

\* String::replace("\"", "") on the user names of the input alphabet
StripQuotes(s) == IF s = "\"alice\"" THEN "alice" ELSE s

\* ----------------------------------------------------------------- index
Folders == {"INBOX", "inbox", "Nope"}
EqIgnoreAsciiCase(a, b) ==
    LET Up(s) == IF s = "inbox" THEN "INBOX" ELSE s IN Up(a) = Up(b)
Mailbox(name, count, permission) ==
    [name |-> name, count |-> count, permission |-> permission]

\* ------------------------------------------------------------ session
Context(user, folder) == [user |-> user, selected_folder |-> folder]
DefaultContext == Context(None, None)
IsAuthenticated(context) == IsSome(context.user)
IsSelected(context) == IsSome(context.selected_folder)

VARIABLES
    reqq,        \* verb -> request channel of the worker serving it
    wk,          \* verb -> worker state: pc, the request being served
    authq,       \* request channel of the authenticator
    authReply,   \* oneshot the LOGIN worker awaits
    mboxq,       \* request channel of the mailbox service
    mboxReply,   \* oneshot the SELECT worker awaits
    mailboxes,   \* InMemoryIndex.mailboxes: name -> Mailbox
    respq,       \* conn -> response channel (batches)
    evq,         \* conn -> event channel
    sockIn,      \* conn -> lines the client wrote, not yet read
    sockOut,     \* conn -> batches written to the socket, in order
    client,      \* conn -> client side: "none", "open", "closed"
    rdr,         \* conn -> reader task: "off", "read", "poll", "done"
    wtr,         \* conn -> writer task: "off", "run", "done"
    mgr,         \* conn -> state manager task: "off", "run", "done"
    ctx,         \* conn -> SessionContext
    shutdown,    \* conn -> shutdown oneshot signalled
    nsent,       \* conn -> commands the client has sent
    reqs,        \* conn -> history: the requests in dispatch order
    applied,     \* conn -> history: the events the state manager applied
    calls,       \* conn -> history: collaborator calls made, <<request id, callee>>
    syncOut,     \* batches the synchronous RequestHandler wrote (first revision)
    srv          \* accept loop: backlog, connection tasks, backpressure tokens

vars == << reqq, wk, authq, authReply, mboxq, mboxReply, mailboxes, respq, evq,
           sockIn, sockOut, client, rdr, wtr, mgr, ctx, shutdown, nsent,
           reqs, applied, calls, syncOut, srv >>

workerVars == << reqq, wk, authq, authReply, mboxq, mboxReply, mailboxes >>
connVars == << sockIn, sockOut, client, rdr, wtr, mgr, ctx, shutdown, nsent, syncOut >>
\* everything but the accept loop and the threaded server
imapVars == << workerVars, respq, evq, connVars, reqs, applied, calls >>

\* --------------------------------------------------------------- workers
\* val holds the local of the iteration that outlives an await: the
\* authenticated user (LOGIN), the mailbox (SELECT)
Idle == [pc |-> "idle", req |-> None, val |-> None]
Serving(pc, r, val) == [pc |-> pc, req |-> Some(r), val |-> val]
ReturnedErr == [pc |-> "returned_err", req |-> None, val |-> None]
ReturnedOk == [pc |-> "returned_ok", req |-> None, val |-> None]

\* Request {command, responder, events, context}: responder and events are
\* the channels of connection conn; id numbers the requests of a connection
\* in dispatch order and seen is the number of events the state manager had
\* applied when the context was read
Request(c, id, command, context, seen) ==
    [conn |-> c, id |-> id, command |-> command, context |-> context, seen |-> seen]

Batch(r, lines) == [id |-> r.id, lines |-> lines]

\* mutant: the iteration ends without the send
Respond_Silent(v, r, lines) ==
    /\ wk' = [wk EXCEPT ![v] = Idle]
    /\ UNCHANGED respq

\* mutant: the worker keeps the responder of connection A and answers
\* every request on it
Respond_KeptResponder(v, r, lines) ==
    /\ respq' = [respq EXCEPT !["A"] = Append(@, Batch(r, lines))]
    /\ wk' = [wk EXCEPT ![v] = Idle]

\* request.responder.send(batch).await? : the send fails, and start returns
\* the error, when the receiver (the writer) is gone
Respond(v, r, lines) ==
    IF wtr[r.conn] # "done"
    THEN /\ respq' = [respq EXCEPT ![r.conn] = Append(@, Batch(r, lines))]
         /\ wk' = [wk EXCEPT ![v] = Idle]
    ELSE /\ wk' = [wk EXCEPT ![v] = ReturnedErr]
         /\ UNCHANGED respq

\* request.events.send(event).await? followed by the rest of the iteration
Emit(v, r, event, pc, val) ==
    IF mgr[r.conn] # "done"
    THEN /\ evq' = [evq EXCEPT ![r.conn] = Append(@, event @@ [id |-> r.id])]
         /\ wk' = [wk EXCEPT ![v] = Serving(pc, r, val)]
    ELSE /\ wk' = [wk EXCEPT ![v] = ReturnedErr]
         /\ UNCHANGED evq

Event(kind, val) ==
    [kind |-> kind,
     user |-> IF kind = "AUTH" THEN val ELSE None,
     folder |-> IF kind = "SELECT" THEN val ELSE None]

InsufficientArguments(r) ==
    << ResponseNew(r.command.tag, "BAD", << "insufficient arguments" >>) >>

\* ---- LOGIN (src/src/handlers/login.rs)
\* LoginHandler::validate: the verb comparison has no effect
LoginValidate(command) == NumArgs(command) >= 2

\* mutant: the welcome does not name the user
LoginCompleted_NoName(r, user) ==
    << ResponseNew(r.command.tag, "OK", << "LOGIN completed." >>) >>

LoginCompleted(r, user) ==
    << ResponseNew(r.command.tag, "OK", << "LOGIN completed. Welcome", user.name, "." >>) >>
LoginFailed(r) ==
    << ResponseNew(r.command.tag, "BAD", << "LOGIN failed." >>) >>

\* start: next request, validate, and place the principal on the
\* authenticator's queue (InMemoryAuthenticator::authenticate)
LoginRecv ==
    /\ wk["LOGIN"].pc = "idle"
    /\ reqq["LOGIN"] # << >>
    /\ LET r == Head(reqq["LOGIN"]) IN
       /\ reqq' = [reqq EXCEPT !["LOGIN"] = Tail(@)]
       /\ IF ~LoginValidate(r.command)
          THEN /\ Respond("LOGIN", r, InsufficientArguments(r))
               /\ UNCHANGED << authq, calls >>
          ELSE /\ authq' = Append(authq,
                      BasicAuthFrom(StripQuotes(Arg(r.command, 1)), Arg(r.command, 2)))
               /\ calls' = [calls EXCEPT ![r.conn] = @ \cup {<< r.id, "authenticate" >>}]
               /\ wk' = [wk EXCEPT !["LOGIN"] = Serving("await_auth", r, None)]
               /\ UNCHANGED respq
    /\ UNCHANGED << srv, authReply, mboxq, mboxReply, mailboxes, evq, connVars, reqs, applied >>

\* mutant: on Ok the tagged OK is sent without the event before it
LoginReply_ResponseFirst ==
    /\ wk["LOGIN"].pc = "await_auth"
    /\ IsSome(authReply)
    /\ LET r == Unwrap(wk["LOGIN"].req)
           reply == Unwrap(authReply) IN
       /\ authReply' = None
       /\ IF reply.ok
          THEN Respond("LOGIN", r, LoginCompleted(r, reply.user))
          ELSE Respond("LOGIN", r, LoginFailed(r))
    /\ UNCHANGED << srv, reqq, authq, mboxq, mboxReply, mailboxes, evq, connVars, reqs, applied, calls >>

\* mutant: the BAD of a failed LOGIN carries the authenticator's error
LoginReply_Discloses ==
    /\ wk["LOGIN"].pc = "await_auth"
    /\ IsSome(authReply)
    /\ LET r == Unwrap(wk["LOGIN"].req)
           reply == Unwrap(authReply) IN
       /\ authReply' = None
       /\ IF reply.ok
          THEN /\ Emit("LOGIN", r, Event("AUTH", Some(reply.user)), "respond", Some(reply.user))
               /\ UNCHANGED respq
          ELSE /\ Respond("LOGIN", r,
                     << ResponseNew(r.command.tag, "BAD", << "LOGIN failed.", reply.err >>) >>)
               /\ UNCHANGED evq
    /\ UNCHANGED << srv, reqq, authq, mboxq, mboxReply, mailboxes, connVars, reqs, applied, calls >>

\* start: the reply arrived; on Ok send Event::AUTH, on Err respond BAD
LoginReply ==
    /\ wk["LOGIN"].pc = "await_auth"
    /\ IsSome(authReply)
    /\ LET r == Unwrap(wk["LOGIN"].req)
           reply == Unwrap(authReply) IN
       /\ authReply' = None
       /\ IF reply.ok
          THEN /\ Emit("LOGIN", r, Event("AUTH", Some(reply.user)), "respond", Some(reply.user))
               /\ UNCHANGED respq
          ELSE /\ Respond("LOGIN", r, LoginFailed(r))
               /\ UNCHANGED evq
    /\ UNCHANGED << srv, reqq, authq, mboxq, mboxReply, mailboxes, connVars, reqs, applied, calls >>

\* start: the tagged OK after the event
LoginRespond ==
    /\ wk["LOGIN"].pc = "respond"
    /\ LET r == Unwrap(wk["LOGIN"].req) IN
       Respond("LOGIN", r, LoginCompleted(r, Unwrap(wk["LOGIN"].val)))
    /\ UNCHANGED << srv, reqq, authq, authReply, mboxq, mboxReply, mailboxes, evq, connVars,
                    reqs, applied, calls >>

\* ---- InMemoryAuthenticator::start (src/src/auth/inmemory.rs)
\* Result<User> sent on the oneshot: Ok(user.clone()), or Err(e) with
\* UserDoesNotExist or the AuthenticationFailed of BasicAuth::authenticate
AuthOk(user) == [ok |-> TRUE, user |-> user, err |-> ""]
AuthErr(e) == [ok |-> FALSE, user |-> User("", ""), err |-> e]

\* mutant: a known user is accepted whatever the password
AuthenticatorStart_AnyPassword ==
    /\ authq # << >>
    /\ LET principal == Head(authq)
           found == UserStoreGet(principal.username) IN
       /\ authq' = Tail(authq)
       /\ authReply' =
             IF ~IsSome(found)
             THEN Some(AuthErr("UserDoesNotExist"))
             ELSE Some(AuthOk(Unwrap(found)))
    /\ UNCHANGED << srv, reqq, wk, mboxq, mboxReply, mailboxes, respq, evq, connVars,
                    reqs, applied, calls >>

AuthenticatorStart ==
    /\ authq # << >>
    /\ LET principal == Head(authq)
           found == UserStoreGet(principal.username) IN
       /\ authq' = Tail(authq)
       /\ authReply' =
             IF ~IsSome(found)
             THEN Some(AuthErr("UserDoesNotExist"))
             ELSE IF BasicAuthAuthenticate(principal, Unwrap(found))
             THEN Some(AuthOk(Unwrap(found)))
             ELSE Some(AuthErr("AuthenticationFailed"))
    /\ UNCHANGED << srv, reqq, wk, mboxq, mboxReply, mailboxes, respq, evq, connVars,
                    reqs, applied, calls >>

\* ---- LOGOUT (src/src/handlers/logout.rs)
\* LogoutHandler::validate never fails
LogoutValidate(command) == TRUE

LogoutCompleted(r) ==
    << ResponseNew(r.command.tag, "OK", << "LOGOUT completed. Goodbye!" >>) >>

\* start: next request, validate, send Event::UNAUTH
LogoutRecv ==
    /\ wk["LOGOUT"].pc = "idle"
    /\ reqq["LOGOUT"] # << >>
    /\ LET r == Head(reqq["LOGOUT"]) IN
       /\ reqq' = [reqq EXCEPT !["LOGOUT"] = Tail(@)]
       /\ IF ~LogoutValidate(r.command)
          THEN /\ Respond("LOGOUT", r,
                     << ResponseNew(r.command.tag, "BAD",
                                    << "cannot understand LOGOUT command provided" >>) >>)
               /\ UNCHANGED evq
          ELSE /\ Emit("LOGOUT", r, Event("UNAUTH", None), "respond", None)
               /\ UNCHANGED respq
    /\ UNCHANGED << srv, authq, authReply, mboxq, mboxReply, mailboxes, connVars,
                    reqs, applied, calls >>

\* start: the tagged OK after the event
LogoutRespond ==
    /\ wk["LOGOUT"].pc = "respond"
    /\ LET r == Unwrap(wk["LOGOUT"].req) IN
       Respond("LOGOUT", r, LogoutCompleted(r))
    /\ UNCHANGED << srv, reqq, authq, authReply, mboxq, mboxReply, mailboxes, evq, connVars,
                    reqs, applied, calls >>

\* ---- FETCH (src/src/handlers/fetch.rs)
\* mutant: no argument check
FetchValidate_Always(command) == TRUE

FetchValidate(command) == NumArgs(command) >= 1

\* mutant: the tagged status line is sent first
FetchCompleted_StatusFirst(r) ==
    << ResponseNew(r.command.tag, "OK", << "FETCH completed." >>),
       ResponseFrom(<< "*", "1", "FETCH (BODY[TEXT] {26}\r\nThis is a test email body.)" >>) >>

FetchCompleted(r) ==
    << ResponseFrom(<< "*", "1", "FETCH (BODY[TEXT] {26}\r\nThis is a test email body.)" >>),
       ResponseNew(r.command.tag, "OK", << "FETCH completed." >>) >>

\* the batch start sends for a valid request; the context is not consulted
FetchBatch(r) == FetchCompleted(r)

\* start: next request, validate, respond
FetchRecv ==
    /\ wk["FETCH"].pc = "idle"
    /\ reqq["FETCH"] # << >>
    /\ LET r == Head(reqq["FETCH"]) IN
       /\ reqq' = [reqq EXCEPT !["FETCH"] = Tail(@)]
       /\ IF ~FetchValidate(r.command)
          THEN Respond("FETCH", r, InsufficientArguments(r))
          ELSE Respond("FETCH", r, FetchBatch(r))
    /\ UNCHANGED << srv, authq, authReply, mboxq, mboxReply, mailboxes, evq, connVars,
                    reqs, applied, calls >>

\* ---- InMemoryIndex (src/src/index/inmemory.rs)
Ok(v) == [ok |-> TRUE, val |-> Some(v), err |-> ""]
Err(e) == [ok |-> FALSE, val |-> None, err |-> e]

\* add_mailbox: the stored mailbox has count 0 and ReadOnly whatever was passed
AddMailbox(mbs, mailbox) ==
    IF mailbox.name \in DOMAIN mbs
    THEN [result |-> Err("Exists"), mailboxes |-> mbs]
    ELSE [result |-> Ok(mailbox.name),
          mailboxes |-> [n \in DOMAIN mbs \cup {mailbox.name} |->
                            IF n = mailbox.name
                            THEN Mailbox(mailbox.name, 0, "ReadOnly")
                            ELSE mbs[n]]]

\* get_mailbox: INBOX (any ASCII case) is added when the name is absent
GetMailbox(mbs, name, permission) ==
    IF name \in DOMAIN mbs
    THEN [result |-> Ok([mbs[name] EXCEPT !.permission = permission]), mailboxes |-> mbs]
    ELSE IF EqIgnoreAsciiCase("INBOX", name)
         THEN LET added == AddMailbox(mbs, Mailbox("INBOX", 0, "ReadOnly")) IN
              IF added.result.ok
              THEN [result |-> Ok(added.mailboxes["INBOX"]), mailboxes |-> added.mailboxes]
              ELSE [result |-> added.result, mailboxes |-> mbs]
         ELSE [result |-> Err("DoesNotExist"), mailboxes |-> mbs]

\* ---- the mailbox service behind SelectHandler.mailbox_requests
\* Mailboxes::handle (src/src/mailbox.rs): a Get is forwarded to the index
\* channel and the responder is dropped unanswered
MailboxesHandle ==
    /\ mboxq # << >>
    /\ mboxq' = Tail(mboxq)
    /\ mboxReply' = Some([kind |-> "Canceled", val |-> None])
    /\ UNCHANGED << srv, reqq, wk, authq, authReply, mailboxes, respq, evq, connVars,
                    reqs, applied, calls >>

\* TestMailboxes::handle (select.rs tests): Get("INBOX") is answered with a
\* mailbox of 172 messages, for another name the responder is dropped
ExistingMailbox == "INBOX"
TestMailboxesHandle ==
    /\ mboxq # << >>
    /\ mboxq' = Tail(mboxq)
    /\ mboxReply' = IF Head(mboxq) = ExistingMailbox
                    THEN Some([kind |-> "Ok",
                               val |-> Some(Mailbox(ExistingMailbox, 172, "ReadWrite"))])
                    ELSE Some([kind |-> "Canceled", val |-> None])
    /\ UNCHANGED << srv, reqq, wk, authq, authReply, mailboxes, respq, evq, connVars,
                    reqs, applied, calls >>

\* a service that answers a Get with Index::get_mailbox(name, ReadWrite)
IndexServe ==
    /\ mboxq # << >>
    /\ LET got == GetMailbox(mailboxes, Head(mboxq), "ReadWrite") IN
       /\ mboxq' = Tail(mboxq)
       /\ mailboxes' = got.mailboxes
       /\ mboxReply' = Some([kind |-> IF got.result.ok THEN "Ok" ELSE "Err",
                             val |-> got.result.val])
    /\ UNCHANGED << srv, reqq, wk, authq, authReply, respq, evq, connVars,
                    reqs, applied, calls >>

\* ---- SELECT (src/src/handlers/select.rs)
\* SelectHandler::validate: another verb passes without the argument check
SelectValidate(command) == command.verb # "SELECT" \/ NumArgs(command) >= 1

\* the tag of the un-authenticated reply as written in start
SelectUnauthenticatedTag(r) == "a1"

SelectUnauthenticated(r) ==
    << ResponseNew(SelectUnauthenticatedTag(r), "NO",
         << "cannot SELECT when un-authenticated. Please authenticate using LOGIN or AUTHENTICATE." >>) >>

\* mutant: the EXISTS line does not carry the mailbox's count
SelectCompleted_NoCount(r, mailbox, folder) ==
    << ResponseFrom(<< "*", "0", "EXISTS" >>),
       ResponseFrom(<< "*", "OK", "[UIDVALIDITY 3857529045] UIDs valid" >>),
       ResponseFrom(<< "*", "OK", "[UIDNEXT 4392] Predicted next UID" >>),
       ResponseFrom(<< "*", "FLAGS", "(\\Answered \\Flagged \\Deleted \\Seen \\Draft)" >>),
       ResponseFrom(<< "*", "OK", "[PERMANENTFLAGS (\\Deleted \\Seen \\*)] Limited" >>),
       ResponseFrom(<< "*", "LIST", "() \"/\"", folder >>),
       ResponseNew(r.command.tag, "OK", << "[READ-WRITE] SELECT completed." >>) >>

SelectCompleted(r, mailbox, folder) ==
    << ResponseFrom(<< "*", ToString(mailbox.count), "EXISTS" >>),
       ResponseFrom(<< "*", "OK", "[UIDVALIDITY 3857529045] UIDs valid" >>),
       ResponseFrom(<< "*", "OK", "[UIDNEXT 4392] Predicted next UID" >>),
       ResponseFrom(<< "*", "FLAGS", "(\\Answered \\Flagged \\Deleted \\Seen \\Draft)" >>),
       ResponseFrom(<< "*", "OK", "[PERMANENTFLAGS (\\Deleted \\Seen \\*)] Limited" >>),
       ResponseFrom(<< "*", "LIST", "() \"/\"", folder >>),
       ResponseNew(r.command.tag, "OK", << "[READ-WRITE] SELECT completed." >>) >>

\* mutant: a failed lookup is answered BAD
NoSuchMailbox_Bad(r) ==
    << ResponseNew(r.command.tag, "BAD", << "No such mailbox" >>) >>

NoSuchMailbox(r) ==
    << ResponseNew(r.command.tag, "NO", << "No such mailbox" >>) >>

\* mutant: the mailbox is requested without the check of the context
SelectRecv_NoContextCheck ==
    /\ wk["SELECT"].pc = "idle"
    /\ reqq["SELECT"] # << >>
    /\ LET r == Head(reqq["SELECT"]) IN
       /\ reqq' = [reqq EXCEPT !["SELECT"] = Tail(@)]
       /\ IF ~SelectValidate(r.command)
          THEN /\ Respond("SELECT", r, InsufficientArguments(r))
               /\ UNCHANGED << mboxq, calls >>
          ELSE /\ mboxq' = Append(mboxq, Arg(r.command, 1))
               /\ calls' = [calls EXCEPT ![r.conn] = @ \cup {<< r.id, "get_mailbox" >>}]
               /\ wk' = [wk EXCEPT !["SELECT"] = Serving("await_mailbox", r, None)]
               /\ UNCHANGED respq
    /\ UNCHANGED << srv, authq, authReply, mboxReply, mailboxes, evq, connVars, reqs, applied >>

\* mutant: the worker reads the connection's context as it is when it runs
SelectRecv_LiveContext ==
    /\ wk["SELECT"].pc = "idle"
    /\ reqq["SELECT"] # << >>
    /\ LET r == Head(reqq["SELECT"]) IN
       /\ reqq' = [reqq EXCEPT !["SELECT"] = Tail(@)]
       /\ IF ~SelectValidate(r.command)
          THEN /\ Respond("SELECT", r, InsufficientArguments(r))
               /\ UNCHANGED << mboxq, calls >>
          ELSE IF ~IsAuthenticated(ctx[r.conn])
          THEN /\ Respond("SELECT", r, SelectUnauthenticated(r))
               /\ UNCHANGED << mboxq, calls >>
          ELSE /\ mboxq' = Append(mboxq, Arg(r.command, 1))
               /\ calls' = [calls EXCEPT ![r.conn] = @ \cup {<< r.id, "get_mailbox" >>}]
               /\ wk' = [wk EXCEPT !["SELECT"] = Serving("await_mailbox", r, None)]
               /\ UNCHANGED respq
    /\ UNCHANGED << srv, authq, authReply, mboxReply, mailboxes, evq, connVars, reqs, applied >>

\* start: next request, validate, check the context, ask for the mailbox
SelectRecv ==
    /\ wk["SELECT"].pc = "idle"
    /\ reqq["SELECT"] # << >>
    /\ LET r == Head(reqq["SELECT"]) IN
       /\ reqq' = [reqq EXCEPT !["SELECT"] = Tail(@)]
       /\ IF ~SelectValidate(r.command)
          THEN /\ Respond("SELECT", r, InsufficientArguments(r))
               /\ UNCHANGED << mboxq, calls >>
          ELSE IF ~IsAuthenticated(r.context)
          THEN /\ Respond("SELECT", r, SelectUnauthenticated(r))
               /\ UNCHANGED << mboxq, calls >>
          ELSE /\ mboxq' = Append(mboxq, Arg(r.command, 1))
               /\ calls' = [calls EXCEPT ![r.conn] = @ \cup {<< r.id, "get_mailbox" >>}]
               /\ wk' = [wk EXCEPT !["SELECT"] = Serving("await_mailbox", r, None)]
               /\ UNCHANGED respq
    /\ UNCHANGED << srv, authq, authReply, mboxReply, mailboxes, evq, connVars, reqs, applied >>

\* start: the reply arrived (or its sender was dropped); with a mailbox send
\* Event::SELECT, without one respond NO
SelectReply ==
    /\ wk["SELECT"].pc = "await_mailbox"
    /\ IsSome(mboxReply)
    /\ LET r == Unwrap(wk["SELECT"].req)
           reply == Unwrap(mboxReply) IN
       /\ mboxReply' = None
       /\ IF reply.kind = "Ok"
          THEN /\ Emit("SELECT", r, Event("SELECT", Some(Arg(r.command, 1))), "respond", reply.val)
               /\ UNCHANGED respq
          ELSE /\ Respond("SELECT", r, NoSuchMailbox(r))
               /\ UNCHANGED evq
    /\ UNCHANGED << srv, reqq, authq, authReply, mboxq, mailboxes, connVars, reqs, applied, calls >>

\* mutant: the lines of the batch are sent one message each, the next
\* line being the one after those already sent for the request
SelectRespond_LineByLine ==
    /\ wk["SELECT"].pc = "respond"
    /\ LET r == Unwrap(wk["SELECT"].req)
           lines == SelectCompleted(r, Unwrap(wk["SELECT"].val), Arg(r.command, 1))
           sent == Len(SelectSeq(sockOut[r.conn] \o respq[r.conn], LAMBDA b : b.id = r.id))
       IN  /\ respq' = [respq EXCEPT ![r.conn] = Append(@, Batch(r, << lines[sent + 1] >>))]
           /\ wk' = IF sent + 1 = Len(lines) THEN [wk EXCEPT !["SELECT"] = Idle] ELSE wk
    /\ UNCHANGED << srv, reqq, authq, authReply, mboxq, mboxReply, mailboxes, evq, connVars,
                    reqs, applied, calls >>

\* start: the batch after the event
SelectRespond ==
    /\ wk["SELECT"].pc = "respond"
    /\ LET r == Unwrap(wk["SELECT"].req) IN
       Respond("SELECT", r, SelectCompleted(r, Unwrap(wk["SELECT"].val), Arg(r.command, 1)))
    /\ UNCHANGED << srv, reqq, authq, authReply, mboxq, mboxReply, mailboxes, evq, connVars,
                    reqs, applied, calls >>

Worker ==
    \/ LoginRecv \/ LoginReply \/ LoginRespond
    \/ LogoutRecv \/ LogoutRespond
    \/ SelectRecv \/ SelectReply \/ SelectRespond
    \/ FetchRecv
    \/ AuthenticatorStart
    \/ MailboxesHandle \/ IndexServe \/ TestMailboxesHandle

\* ---- the synchronous handlers of the first revision
\* (src/src/handler.rs, src/src/handlers/login_handler.rs, src/src/auth.rs)
\* InMemoryUserStore::with_user: name -> password
SyncUsers == { << "alice", "pw1" >> }

\* InMemoryUserStore::authenticate
SyncAuthenticate(username, password) == << username, password >> \in SyncUsers

\* LoginHandler::handle
SyncLoginHandle(command) ==
    IF Len(command.args) < 2
    THEN << ResponseNew(command.tag, "BAD",
              << "Missing argument. Command should be '<tag> LOGIN <userid> <password>'" >>) >>
    ELSE IF SyncAuthenticate(command.args[1], command.args[2])
    THEN << ResponseNew(command.tag, "OK", << "LOGIN completed." >>) >>
    ELSE << ResponseNew(command.tag, "NO", << "LOGIN failed." >>) >>

\* CapabilityHandler::handle: the first line has the empty tag
CapabilityHandle(command) ==
    << ResponseNew("", "OK", << "CAPABILITY IMAP4rev1" >>),
       ResponseNew(command.tag, "OK", << "CAPABILITY completed" >>) >>

\* UnknownCommandHandler::handle
UnknownCommandHandle(command) ==
    << ResponseNew(command.tag, "BAD", << "Command '", command.verb, "' unknown" >>) >>

\* RequestHandler::handle after the parse: the delegate of the verb, or the
\* default handler (src/src/requests.rs)
Delegate(command) ==
    IF command.verb = "login" THEN SyncLoginHandle(command)
    ELSE IF command.verb = "capability" THEN CapabilityHandle(command)
    ELSE UnknownCommandHandle(command)

\* the commands the parser hands to RequestHandler::handle: verbs are
\* lowercased; a line that does not parse becomes the empty verb with the
\* tag that was read, or the empty tag
SyncCommands ==
    { Command(t, v, a) :
        t \in Tags \cup {""},
        v \in {"login", "capability", "noop", ""},
        a \in { << >>, << "alice" >>, << "alice", "pw1" >>, << "alice", "bad" >> } }

RequestHandlerHandle ==
    /\ Len(syncOut) < MaxInject
    /\ \E command \in SyncCommands :
          /\ (command.verb = "" => command.args = << >>)
          /\ syncOut' = Append(syncOut, [by |-> "RequestHandler", command |-> command,
                                          lines |-> Delegate(command)])
    /\ UNCHANGED << srv, workerVars, respq, evq, sockIn, sockOut, client, rdr, wtr, mgr, ctx,
                    shutdown, nsent, reqs, applied, calls >>

\* ---- DelegatingCommandHandler (src/src/handlers/mod.rs): the handlers
\* registered with it (tests/server_tests.rs registers the LOGIN handler)
Registered == { "LOGIN" }

\* LoginHandler::handle of the HandleCommand trait
LoginHandle(command) ==
    << ResponseNew(command.tag, "OK", << "LOGIN completed." >>) >>

\* DelegatingCommandHandler::handle: the response of the first registered
\* handler with the command's name, and the fall-through response when no
\* handler has that name
DelegatingHandle(command) ==
    IF command.verb \in Registered
    THEN LoginHandle(command)
    ELSE << ResponseNew(command.tag, "NO", << "Command unknown" >>) >>

\* the commands handed to DelegatingCommandHandler::handle: LoginHandler::handle
\* reads two arguments
DelegatingCommands ==
    { Command(t, "LOGIN", << "alice", "pw1" >>) : t \in Tags }
    \cup { Command(t, v, a) : t \in Tags, v \in {"LOGOUT", "NOOP", "login"},
                             a \in { << >>, << "INBOX" >> } }

DelegatingCommandHandlerHandle ==
    /\ Len(syncOut) < MaxInject
    /\ \E command \in DelegatingCommands :
          syncOut' = Append(syncOut, [by |-> "DelegatingCommandHandler", command |-> command,
                                      lines |-> DelegatingHandle(command)])
    /\ UNCHANGED << srv, workerVars, respq, evq, sockIn, sockOut, client, rdr, wtr, mgr, ctx,
                    shutdown, nsent, reqs, applied, calls >>

\* ---- the worker harness (handlers::tests::test_handle): a request with any
\* command and any context is sent to the worker of its verb; the harness
\* holds the receiving ends of the response and event channels
HarnessArgs(verb) ==
    CASE verb = "LOGIN" ->
            { << >>, << "alice" >>, << "alice", "pw1" >>, << "alice", "pw2" >>,
              << "bob", "pw2" >>, << "eve", "pw1" >>, << "\"alice\"", "pw1" >> }
      [] verb = "SELECT" -> { << >> } \cup { << f >> : f \in Folders }
      [] verb = "FETCH" -> { << >>, << "1" >>, << "1", "BODY[TEXT]" >> }
      [] verb = "LOGOUT" -> { << >>, << "now" >> }

HarnessCommands ==
    UNION { { Command(t, v, a) : t \in Tags, a \in HarnessArgs(v) } : v \in Verbs }

HarnessContexts ==
    { Context(u, f) : u \in { None, Some(User("alice", "pw1")) },
                      f \in { None, Some("INBOX") } }

Inject(c) ==
    /\ Len(reqs[c]) < MaxInject
    /\ \E command \in HarnessCommands, context \in HarnessContexts :
          LET r == Request(c, Len(reqs[c]) + 1, command, context, 0) IN
          /\ reqq' = [reqq EXCEPT ![command.verb] = Append(@, r)]
          /\ reqs' = [reqs EXCEPT ![c] = Append(@, r @@ [awaited |-> FALSE, worker |-> command.verb])]
    /\ UNCHANGED << srv, wk, authq, authReply, mboxq, mboxReply, mailboxes, respq, evq,
                    connVars, applied, calls >>

InitWorkers ==
    /\ reqq = [v \in Verbs |-> << >>]
    /\ wk = [v \in Verbs |-> Idle]
    /\ authq = << >>
    /\ authReply = None
    /\ mboxq = << >>
    /\ mboxReply = None
    /\ mailboxes = << >>
    /\ evq = [c \in Conns |-> << >>]
    /\ reqs = [c \in Conns |-> << >>]
    /\ applied = [c \in Conns |-> << >>]
    /\ calls = [c \in Conns |-> {}]
    /\ syncOut = << >>

\* sockets that may connect to the listener
Sockets == { "s1", "s2", "s3", "s4" }

\* the accept loop before any client has connected
InitialServer ==
    [backlog |-> {}, tokens |-> {}, pc |-> [s \in Sockets |-> "none"],
           sock |-> << >>, sent |-> 0, open |-> TRUE, wire |-> << >>,
           closed |-> {}, lookups |-> << >>,
           parsed |-> << >>, phase |-> "accepting",
           users |-> {}, userCalls |-> << >>,
           tasks |-> [t \in {"t1", "t2"} |->
                        [pc |-> "idle", name |-> "", permission |-> "", result |-> Err("")]],
           auth |-> [queue |-> << >>, answered |-> << >>, sent |-> 0,
                     closed |-> FALSE, pc |-> "running"],
           peer |-> "open", clock |-> [now |-> 0, last_read |-> 0],
           last |-> [outcome |-> "none", at |-> 0],
           broker |-> [pc |-> "loop", accepting |-> TRUE, events |-> << >>,
                       disconnects |-> << >>, peers |-> << >>,
                       reader |-> [c \in 1..MaxPeerConns |-> "none"],
                       name |-> [c \in 1..MaxPeerConns |-> ""],
                       writer |-> [c \in 1..MaxPeerConns |-> "none"],
                       inbox |-> [c \in 1..MaxPeerConns |-> 0],
                       written |-> [c \in 1..MaxPeerConns |-> 0],
                       messages |-> 0, assertFailed |-> FALSE, sendFailed |-> FALSE]]

InitServer == srv = InitialServer

HandlerInit ==
    /\ InitWorkers
    /\ InitServer
    /\ respq = [c \in Conns |-> << >>]
    /\ sockIn = [c \in Conns |-> << >>]
    /\ sockOut = [c \in Conns |-> << >>]
    /\ client = [c \in Conns |-> "none"]
    /\ rdr = [c \in Conns |-> "off"]
    /\ wtr = [c \in Conns |-> "off"]
    /\ mgr = [c \in Conns |-> "off"]
    /\ ctx = [c \in Conns |-> DefaultContext]
    /\ shutdown = [c \in Conns |-> FALSE]
    /\ nsent = [c \in Conns |-> 0]

HandlerNext ==
    \/ \E c \in OneConn : Inject(c)
    \/ RequestHandlerHandle
    \/ DelegatingCommandHandlerHandle
    \/ Worker

HandlerSpec == HandlerInit /\ [][HandlerNext]_vars

\* ---- a request on the channel of a worker of another verb: the harness
\* sends the command of one verb to the handler of another
\* (SelectHandler::start is not given an authenticated command without
\* arguments: command.arg(0) is not defined for it)
MisroutedArgs == { << >>, << "alice", "pw1" >>, << "INBOX" >> }

InjectMisrouted(c) ==
    /\ Len(reqs[c]) < MaxInject
    /\ \E w \in Verbs, v \in Verbs, t \in Tags, a \in MisroutedArgs,
          context \in HarnessContexts :
          LET r == Request(c, Len(reqs[c]) + 1, Command(t, v, a), context, 0) IN
          /\ v # w
          /\ ~(w = "SELECT" /\ a = << >> /\ IsAuthenticated(context))
          /\ reqq' = [reqq EXCEPT ![w] = Append(@, r)]
          /\ reqs' = [reqs EXCEPT ![c] = Append(@, r @@ [awaited |-> FALSE, worker |-> w])]
    /\ UNCHANGED << srv, wk, authq, authReply, mboxq, mboxReply, mailboxes, respq, evq,
                    connVars, applied, calls >>

MisroutedNext ==
    \/ \E c \in OneConn : InjectMisrouted(c)
    \/ Worker

MisroutedSpec == HandlerInit /\ [][MisroutedNext]_vars

\* ---- the end of a worker (test_handle: drop(requests); handle.await):
\* srv.closed holds the verbs whose request channel has lost every sender
DropRequests(v) ==
    /\ v \notin srv.closed
    /\ srv' = [srv EXCEPT !.closed = @ \cup {v}]
    /\ UNCHANGED imapVars

\* the harness sends on the channels it still holds
InjectOpen(c) ==
    /\ Inject(c)
    /\ \A v \in srv.closed : reqq'[v] = reqq[v]

\* mutant: the end of the channel is returned as an error
WorkerExit_Err(v) ==
    /\ wk[v].pc = "idle"
    /\ reqq[v] = << >>
    /\ v \in srv.closed
    /\ wk' = [wk EXCEPT ![v] = ReturnedErr]
    /\ UNCHANGED << srv, reqq, authq, authReply, mboxq, mboxReply, mailboxes, respq, evq,
                    connVars, reqs, applied, calls >>

\* start: requests.next() yields None on the closed and empty channel, the
\* while loop ends and start returns Ok(())
WorkerExit(v) ==
    /\ wk[v].pc = "idle"
    /\ reqq[v] = << >>
    /\ v \in srv.closed
    /\ wk' = [wk EXCEPT ![v] = ReturnedOk]
    /\ UNCHANGED << srv, reqq, authq, authReply, mboxq, mboxReply, mailboxes, respq, evq,
                    connVars, reqs, applied, calls >>

ShutdownNext ==
    \/ \E c \in OneConn : InjectOpen(c)
    \/ \E v \in Verbs : DropRequests(v)
    \/ Worker
    \/ \E v \in Verbs : WorkerExit(v)

ShutdownSpec == HandlerInit /\ [][ShutdownNext]_vars

\* every spawned task is scheduled again while it can take a step
FairShutdownSpec ==
    /\ ShutdownSpec
    /\ WF_vars(Worker)
    /\ \A v \in Verbs : WF_vars(WorkerExit(v))

\* ---- a connection whose writer or state manager has exited on a
\* transport error while requests of it are queued: the receiving end of
\* the response channel, or of the event channel, is dropped
ReceiverDropped(c) ==
    /\ \E end \in {"responder", "events"} :
          IF end = "responder"
          THEN /\ wtr[c] # "done"
               /\ wtr' = [wtr EXCEPT ![c] = "done"]
               /\ UNCHANGED mgr
          ELSE /\ mgr[c] # "done"
               /\ mgr' = [mgr EXCEPT ![c] = "done"]
               /\ UNCHANGED wtr
    /\ UNCHANGED << srv, workerVars, respq, evq, sockIn, sockOut, client, rdr, ctx,
                    shutdown, nsent, reqs, applied, calls, syncOut >>

DroppedNext ==
    \/ \E c \in OneConn : Inject(c)
    \/ \E c \in OneConn : ReceiverDropped(c)
    \/ Worker

DroppedSpec == HandlerInit /\ [][DroppedNext]_vars

\* ---- the in-memory index called directly (src/src/index/inmemory.rs):
\* srv.lookups records each get_mailbox call with its result
Permissions == { "ReadOnly", "ReadWrite" }

IndexGetMailbox ==
    /\ Len(srv.lookups) < MaxLookups
    /\ \E name \in Folders, permission \in Permissions :
          LET got == GetMailbox(mailboxes, name, permission) IN
          /\ mailboxes' = got.mailboxes
          /\ srv' = [srv EXCEPT !.lookups =
                        Append(@, [name |-> name, permission |-> permission,
                                   result |-> got.result])]
    /\ UNCHANGED << reqq, wk, authq, authReply, mboxq, mboxReply, respq, evq, connVars,
                    reqs, applied, calls >>

IndexAddMailbox ==
    /\ \E name \in Folders, permission \in Permissions :
          mailboxes' = AddMailbox(mailboxes, Mailbox(name, 0, permission)).mailboxes
    /\ UNCHANGED << srv, reqq, wk, authq, authReply, mboxq, mboxReply, respq, evq, connVars,
                    reqs, applied, calls >>

IndexNext == IndexGetMailbox \/ IndexAddMailbox

IndexSpec == HandlerInit /\ [][IndexNext]_vars

\* ---- two tasks calling get_mailbox on one InMemoryIndex: every await of
\* the RwLock is a point where the other task may run; srv.tasks holds the
\* position of each call and its result
Tasks == { "t1", "t2" }

\* index.get_mailbox(name, permission) is called by an idle task
ConcurrentGetCall(t) ==
    /\ srv.tasks[t].pc = "idle"
    /\ \E name \in Folders, permission \in Permissions :
          srv' = [srv EXCEPT !.tasks[t] = [pc |-> "read", name |-> name,
                                            permission |-> permission, result |-> Err("")]]
    /\ UNCHANGED imapVars

\* get_mailbox under the read lock: the mailbox, or for INBOX in any case
\* the lock is dropped before add_mailbox, or DoesNotExist
ConcurrentGetRead(t) ==
    /\ srv.tasks[t].pc = "read"
    /\ LET call == srv.tasks[t] IN
       srv' = [srv EXCEPT !.tasks[t] =
                  IF call.name \in DOMAIN mailboxes
                  THEN [call EXCEPT !.pc = "done",
                                    !.result = Ok([mailboxes[call.name] EXCEPT
                                                      !.permission = call.permission])]
                  ELSE IF EqIgnoreAsciiCase("INBOX", call.name)
                  THEN [call EXCEPT !.pc = "add"]
                  ELSE [call EXCEPT !.pc = "done", !.result = Err("DoesNotExist")]]
    /\ UNCHANGED imapVars

\* self.add_mailbox(INBOX).await? under the write lock: its error is
\* returned from get_mailbox
ConcurrentGetAdd(t) ==
    /\ srv.tasks[t].pc = "add"
    /\ LET added == AddMailbox(mailboxes, Mailbox("INBOX", 0, "ReadOnly")) IN
       /\ mailboxes' = added.mailboxes
       /\ srv' = [srv EXCEPT !.tasks[t] =
                     IF added.result.ok
                     THEN [@ EXCEPT !.pc = "reread"]
                     ELSE [@ EXCEPT !.pc = "done", !.result = added.result]]
    /\ UNCHANGED << reqq, wk, authq, authReply, mboxq, mboxReply, respq, evq, connVars,
                    reqs, applied, calls >>

\* the second read lock: get("INBOX").expect(..)
ConcurrentGetReread(t) ==
    /\ srv.tasks[t].pc = "reread"
    /\ srv' = [srv EXCEPT !.tasks[t] =
                  [@ EXCEPT !.pc = "done", !.result = Ok(mailboxes["INBOX"])]]
    /\ UNCHANGED imapVars

ConcurrentIndexNext ==
    \E t \in Tasks :
        \/ ConcurrentGetCall(t)
        \/ ConcurrentGetRead(t)
        \/ ConcurrentGetAdd(t)
        \/ ConcurrentGetReread(t)

ConcurrentIndexSpec == HandlerInit /\ [][ConcurrentIndexNext]_vars

\* ------------------------------------------------- connection runtime
\* reader, writer and state manager of one accepted connection, with the
\* client at the other end of the socket

Range(seq) == { seq[i] : i \in 1..Len(seq) }
Last(seq) == seq[Len(seq)]

\* the greeting the runtime enqueues after binding the three tasks
Greeting == [id |-> 0, lines |-> << ResponseFrom(<< "*", "OK", "IMAP4rev2 server ready" >>) >>]

\* the dispatcher: verb -> request channel of the worker started for it
Dispatcher == Verbs

\* the reader's synthetic reply to a verb without a handler
CommandUnknown(command) ==
    << ResponseNew(command.tag, "BAD", << "Command unknown" >>) >>

\* what the client of the model sends: tags alternate, verbs and arguments
\* are drawn from ClientLines
TagOf(n) == IF n % 2 = 0 THEN "a1" ELSE "a2"
ClientLines ==
    { << "LOGIN", << "alice", "pw1" >> >>, << "LOGIN", << "bob", "pw2" >> >>,
      << "SELECT", << "INBOX" >> >>, << "FETCH", << "1" >> >>,
      << "LOGOUT", << >> >>, << "NOOP", << >> >> }

\* the client has read the tagged OK of a LOGIN from the socket
ReceivedLoginOk(c) ==
    \E i \in 1..Len(sockOut[c]) :
        /\ sockOut[c][i].id >= 1
        /\ reqs[c][sockOut[c][i].id].command.verb = "LOGIN"
        /\ Last(sockOut[c][i].lines).status = "OK"
\* the client has sent a LOGOUT (read by the reader or not yet)
SentLogout(c) ==
    \/ \E i \in 1..Len(sockIn[c]) : sockIn[c][i].command.verb = "LOGOUT"
    \/ \E i \in 1..Len(reqs[c]) : reqs[c][i].command.verb = "LOGOUT"

\* the client writes one command line; awaited records that it had read the
\* OK of a LOGIN before and has sent no LOGOUT
ClientSend(c) ==
    /\ client[c] = "open"
    /\ nsent[c] < MaxCmds
    /\ \E l \in ClientLines :
          sockIn' = [sockIn EXCEPT ![c] = Append(@,
                        [command |-> Command(TagOf(nsent[c]), l[1], l[2]),
                         awaited |-> ReceivedLoginOk(c) /\ ~SentLogout(c)])]
    /\ nsent' = [nsent EXCEPT ![c] = @ + 1]
    /\ UNCHANGED << srv, workerVars, respq, evq, sockOut, client, rdr, wtr, mgr, ctx, shutdown,
                    reqs, applied, calls, syncOut >>

\* the client closes its side: the reader sees EOF after the lines sent
ClientClose(c) ==
    /\ client[c] = "open"
    /\ client' = [client EXCEPT ![c] = "closed"]
    /\ UNCHANGED << srv, workerVars, respq, evq, sockIn, sockOut, rdr, wtr, mgr, ctx, shutdown,
                    nsent, reqs, applied, calls, syncOut >>

\* the session context as the reader reads it under the read lock
Snapshot(c) == ctx[c]

\* reader: one line is read and parsed, the context is read, the request is
\* forwarded to the worker of the verb, or answered BAD when there is none
ReaderLine(c) ==
    /\ rdr[c] = "read"
    /\ sockIn[c] # << >>
    /\ LET line == Head(sockIn[c])
           r == Request(c, Len(reqs[c]) + 1, line.command, Snapshot(c), Len(applied[c])) IN
       /\ sockIn' = [sockIn EXCEPT ![c] = Tail(@)]
       /\ reqs' = [reqs EXCEPT ![c] = Append(@, r @@ [awaited |-> line.awaited, worker |-> line.command.verb])]
       /\ IF line.command.verb \in Dispatcher
          THEN /\ reqq' = [reqq EXCEPT ![line.command.verb] = Append(@, r)]
               /\ UNCHANGED respq
          ELSE /\ respq' = [respq EXCEPT ![c] = Append(@, Batch(r, CommandUnknown(line.command)))]
               /\ UNCHANGED reqq
    /\ rdr' = [rdr EXCEPT ![c] = "poll"]
    /\ UNCHANGED << srv, wk, authq, authReply, mboxq, mboxReply, mailboxes, evq, sockOut, client,
                    wtr, mgr, ctx, shutdown, nsent, applied, calls, syncOut >>

\* reader: the non-blocking poll of the shutdown oneshot between two lines
ReaderPoll(c) ==
    /\ rdr[c] = "poll"
    /\ rdr' = [rdr EXCEPT ![c] = IF shutdown[c] \/ mgr[c] = "done" THEN "done" ELSE "read"]
    /\ UNCHANGED << srv, workerVars, respq, evq, sockIn, sockOut, client, wtr, mgr, ctx, shutdown,
                    nsent, reqs, applied, calls, syncOut >>

\* reader: EOF on the socket ends the loop; the reader's senders are dropped
ReaderEof(c) ==
    /\ rdr[c] = "read"
    /\ sockIn[c] = << >>
    /\ client[c] = "closed"
    /\ rdr' = [rdr EXCEPT ![c] = "done"]
    /\ UNCHANGED << srv, workerVars, respq, evq, sockIn, sockOut, client, wtr, mgr, ctx, shutdown,
                    nsent, reqs, applied, calls, syncOut >>

\* every sender of the channels of c is dropped: the reader has ended and no
\* request of c is queued or being served
SendersDropped(c) ==
    /\ rdr[c] = "done"
    /\ \A v \in Verbs :
          /\ \A i \in 1..Len(reqq[v]) : reqq[v][i].conn # c
          /\ (IsSome(wk[v].req) => Unwrap(wk[v].req).conn # c)

\* mutant: the writer takes the newest batch of the channel
WriterWrite_Newest(c) ==
    /\ wtr[c] = "run"
    /\ respq[c] # << >>
    /\ sockOut' = [sockOut EXCEPT ![c] = Append(@, Last(respq[c]))]
    /\ respq' = [respq EXCEPT ![c] = SubSeq(@, 1, Len(@) - 1)]
    /\ UNCHANGED << srv, workerVars, evq, sockIn, client, rdr, wtr, mgr, ctx, shutdown,
                    nsent, reqs, applied, calls, syncOut >>

\* writer: one batch is taken and each of its lines written
WriterWrite(c) ==
    /\ wtr[c] = "run"
    /\ respq[c] # << >>
    /\ sockOut' = [sockOut EXCEPT ![c] = Append(@, Head(respq[c]))]
    /\ respq' = [respq EXCEPT ![c] = Tail(@)]
    /\ UNCHANGED << srv, workerVars, evq, sockIn, client, rdr, wtr, mgr, ctx, shutdown,
                    nsent, reqs, applied, calls, syncOut >>

\* mutant: the writer exits as soon as the shutdown oneshot is signalled
WriterExit_OnSignal(c) ==
    /\ wtr[c] = "run"
    /\ shutdown[c]
    /\ wtr' = [wtr EXCEPT ![c] = "done"]
    /\ UNCHANGED << srv, workerVars, respq, evq, sockIn, sockOut, client, rdr, mgr, ctx, shutdown,
                    nsent, reqs, applied, calls, syncOut >>

\* writer: the channel is closed and drained
WriterExit(c) ==
    /\ wtr[c] = "run"
    /\ respq[c] = << >>
    /\ SendersDropped(c)
    /\ wtr' = [wtr EXCEPT ![c] = "done"]
    /\ UNCHANGED << srv, workerVars, respq, evq, sockIn, sockOut, client, rdr, mgr, ctx, shutdown,
                    nsent, reqs, applied, calls, syncOut >>

\* mutant: Unauthenticated clears the user only
Apply_KeepsFolder(context, event) ==
    CASE event.kind = "AUTH" -> [context EXCEPT !.user = event.user]
      [] event.kind = "SELECT" -> [context EXCEPT !.selected_folder = event.folder]
      [] event.kind = "UNAUTH" -> [context EXCEPT !.user = None]

\* state manager: the transition of one event
Apply(context, event) ==
    CASE event.kind = "AUTH" -> [context EXCEPT !.user = event.user]
      [] event.kind = "SELECT" -> [context EXCEPT !.selected_folder = event.folder]
      [] event.kind = "UNAUTH" -> Context(None, None)

\* mutant: Unauthenticated signals the shutdown of every connection
StateManagerApply_Global(c) ==
    /\ mgr[c] = "run"
    /\ evq[c] # << >>
    /\ LET event == Head(evq[c]) IN
       /\ ctx' = [ctx EXCEPT ![c] = Apply(@, event)]
       /\ shutdown' = [x \in Conns |-> shutdown[x] \/ event.kind = "UNAUTH"]
       /\ applied' = [applied EXCEPT ![c] = Append(@, event)]
    /\ evq' = [evq EXCEPT ![c] = Tail(@)]
    /\ UNCHANGED << srv, workerVars, respq, sockIn, sockOut, client, rdr, wtr, mgr,
                    nsent, reqs, calls, syncOut >>

\* state manager: the next event is applied under the write lock;
\* Unauthenticated also signals the shutdown oneshot
StateManagerApply(c) ==
    /\ mgr[c] = "run"
    /\ evq[c] # << >>
    /\ LET event == Head(evq[c]) IN
       /\ ctx' = [ctx EXCEPT ![c] = Apply(@, event)]
       /\ shutdown' = [shutdown EXCEPT ![c] = @ \/ event.kind = "UNAUTH"]
       /\ applied' = [applied EXCEPT ![c] = Append(@, event)]
    /\ evq' = [evq EXCEPT ![c] = Tail(@)]
    /\ UNCHANGED << srv, workerVars, respq, sockIn, sockOut, client, rdr, wtr, mgr,
                    nsent, reqs, calls, syncOut >>

\* state manager: the event channel is closed and drained
StateManagerExit(c) ==
    /\ mgr[c] = "run"
    /\ evq[c] = << >>
    /\ SendersDropped(c)
    /\ mgr' = [mgr EXCEPT ![c] = "done"]
    /\ UNCHANGED << srv, workerVars, respq, evq, sockIn, sockOut, client, rdr, wtr, ctx, shutdown,
                    nsent, reqs, applied, calls, syncOut >>

\* the runtime has awaited both tasks and returned; the socket is closed
Closed(c) == rdr[c] = "done" /\ wtr[c] = "done" /\ mgr[c] = "done"

\* the runtime of each connection after it has bound its three tasks
InitConnections ==
    /\ respq = [c \in Conns |-> << Greeting >>]
    /\ sockIn = [c \in Conns |-> << >>]
    /\ sockOut = [c \in Conns |-> << >>]
    /\ client = [c \in Conns |-> "open"]
    /\ rdr = [c \in Conns |-> "read"]
    /\ wtr = [c \in Conns |-> "run"]
    /\ mgr = [c \in Conns |-> "run"]
    /\ ctx = [c \in Conns |-> DefaultContext]
    /\ shutdown = [c \in Conns |-> FALSE]
    /\ nsent = [c \in Conns |-> 0]

Init ==
    /\ InitWorkers
    /\ InitServer
    /\ InitConnections

Client(c) == ClientSend(c) \/ ClientClose(c)
Reader(c) == ReaderLine(c) \/ ReaderPoll(c) \/ ReaderEof(c)
Writer(c) == WriterWrite(c) \/ WriterExit(c)
StateManager(c) == StateManagerApply(c) \/ StateManagerExit(c)
Runtime(c) == Reader(c) \/ Writer(c) \/ StateManager(c)

Next ==
    \/ \E c \in OneConn : Client(c)
    \/ \E c \in OneConn : Runtime(c)
    \/ Worker

Spec == Init /\ [][Next]_vars

\* ---- two connections on the same workers, each client sending at most
\* MaxCmdsEach lines
ClientSendOne(c) ==
    /\ nsent[c] < MaxCmdsEach
    /\ ClientSend(c)

\* the worker steps a first command of a connection can lead to: its
\* snapshot has no user, so no SELECT reaches the mailbox service
WorkerFirstCommand ==
    \/ LoginRecv \/ LoginReply \/ LoginRespond
    \/ LogoutRecv \/ LogoutRespond
    \/ SelectRecv
    \/ FetchRecv
    \/ AuthenticatorStart

TwoNext ==
    \/ \E c \in Conns : ClientSendOne(c) \/ ClientClose(c)
    \/ \E c \in Conns : Runtime(c)
    \/ WorkerFirstCommand

TwoSpec == Init /\ [][TwoNext]_vars

\* ---- the end of the server: the accept loop has terminated with two
\* connections outstanding; the connection tasks are awaited, then the
\* handler worker tasks. The accept loop owns
\* the dispatcher map and lends it to the readers, so its senders are gone
\* when the loop has ended and every connection task has finished
ServerInit ==
    /\ InitWorkers
    /\ InitConnections
    /\ srv = [InitialServer EXCEPT !.phase = "awaiting_connections"]

ConnectionsJoined ==
    /\ srv.phase = "awaiting_connections"
    /\ \A c \in Conns : Closed(c)
    /\ srv' = [srv EXCEPT !.phase = "awaiting_workers", !.closed = Verbs]
    /\ UNCHANGED imapVars

WorkersJoined ==
    /\ srv.phase = "awaiting_workers"
    /\ \A v \in Verbs : wk[v].pc \in {"returned_ok", "returned_err"}
    /\ srv' = [srv EXCEPT !.phase = "stopped"]
    /\ UNCHANGED imapVars

ServerNext ==
    \/ TwoNext
    \/ ConnectionsJoined
    \/ \E v \in Verbs : WorkerExit(v)
    \/ WorkersJoined

ServerSpec == ServerInit /\ [][ServerNext]_vars

\* every task that can run is eventually run; the clients are obliged to
\* nothing
FairServerSpec ==
    /\ ServerSpec
    /\ WF_vars(WorkerFirstCommand)
    /\ \A c \in Conns : WF_vars(Reader(c)) /\ WF_vars(Writer(c)) /\ WF_vars(StateManager(c))
    /\ WF_vars(ConnectionsJoined \/ WorkersJoined \/ \E v \in Verbs : WorkerExit(v))

\* every task of the executor that can run is eventually run; nothing obliges
\* the client to send or to close
FairSpec ==
    /\ Spec
    /\ WF_vars(Worker)
    /\ \A c \in OneConn : WF_vars(Reader(c)) /\ WF_vars(Writer(c)) /\ WF_vars(StateManager(c))

\* ------------------------------------------------------ accept loop
\* the listener admits a connection when a backpressure token is free and
\* spawns connection_loop(_token, broker, stream) for it
\* (src/src/connection.rs); the token is a parameter of the task and is
\* dropped when the task returns

\* a client connects: the connection waits in the listener's backlog
Connect(s) ==
    /\ srv.pc[s] = "none"
    /\ s \notin srv.backlog
    /\ srv' = [srv EXCEPT !.backlog = @ \cup {s}]
    /\ UNCHANGED imapVars

\* listener.incoming() behind the backpressure wrapper: the accept waits
\* until fewer than max_connections tokens are out
Accept(s) ==
    /\ s \in srv.backlog
    /\ Cardinality(srv.tokens) < MaxConnections
    /\ srv' = [srv EXCEPT !.backlog = @ \ {s}, !.tokens = @ \cup {s}, !.pc[s] = "name"]
    /\ UNCHANGED imapVars

\* mutant: the token is released as soon as the name line is read
ConnectionLoopName_DropsToken(s) ==
    /\ srv.pc[s] = "name"
    /\ \/ srv' = [srv EXCEPT !.pc[s] = "lines", !.tokens = @ \ {s}]
       \/ srv' = [srv EXCEPT !.pc[s] = "none", !.tokens = @ \ {s}]
    /\ UNCHANGED imapVars

\* connection_loop: the first line is the peer's name; a peer that
\* disconnects at once, or a read error, makes the task return Err
ConnectionLoopName(s) ==
    /\ srv.pc[s] = "name"
    /\ \/ srv' = [srv EXCEPT !.pc[s] = "lines"]
       \/ srv' = [srv EXCEPT !.pc[s] = "none", !.tokens = @ \ {s}]
    /\ UNCHANGED imapVars

\* connection_loop: the line loop ends at EOF (Ok) or on a read error (Err);
\* the task returns and its token is dropped
ConnectionLoopReturn(s) ==
    /\ srv.pc[s] = "lines"
    /\ srv' = [srv EXCEPT !.pc[s] = "none", !.tokens = @ \ {s}]
    /\ UNCHANGED imapVars

\* the connection tasks that are running
Running == { s \in Sockets : srv.pc[s] \in { "name", "lines" } }

AcceptInit == HandlerInit

AcceptNext ==
    \E s \in Sockets :
        \/ Connect(s)
        \/ Accept(s)
        \/ ConnectionLoopName(s)
        \/ ConnectionLoopReturn(s)

AcceptSpec == AcceptInit /\ [][AcceptNext]_vars

\* ------------------------------------------------- threaded server
\* (src/src/server.rs, src/src/requests.rs, src/src/parser.rs: the first
\* revision reads a line from the socket, parses it and writes the responses
\* of the verb's handler, one connection per pool thread)

\* a line is a sequence of pieces: words, the space, the line feed, and a
\* byte that is not valid UTF-8
InvalidByte == "0xff"
Words == { "a1", "capability", "CAPABILITY" }
Pieces == Words \cup { " ", "\n", InvalidByte }

\* the lines a client writes: pieces without a line feed, then the line feed
SocketLines ==
    UNION { { Append(body, "\n") : body \in [1..n -> Pieces \ {"\n"}] } :
            n \in 0..(MaxPieces - 1) }

\* String::from_utf8 of a token / the concatenation of its bytes
RECURSIVE Join(_)
Join(token) == IF token = << >> THEN "" ELSE Head(token) \o Join(Tail(token))

\* str::to_lowercase on a piece
Lower(piece) == IF piece = "CAPABILITY" THEN "capability" ELSE piece

\* input.split(|b| b == b' ').filter(|b| b.len() > 0): the tokens of the
\* buffer, each a sequence of pieces; cur is the token being collected
RECURSIVE SplitFrom(_, _, _)
SplitFrom(buf, cur, acc) ==
    IF buf = << >>
    THEN IF cur = << >> THEN acc ELSE Append(acc, cur)
    ELSE IF Head(buf) = " "
    THEN SplitFrom(Tail(buf), << >>, IF cur = << >> THEN acc ELSE Append(acc, cur))
    ELSE SplitFrom(Tail(buf), Append(cur, Head(buf)), acc)

Split(buf) == SplitFrom(buf, << >>, << >>)

\* String::from_utf8(bytes.to_vec()) succeeds on a token
ValidUtf8(token) == InvalidByte \notin { token[i] : i \in 1..Len(token) }

\* Parser::get_command without the to_lowercase at its end
GetCommand_NoLower(token) ==
    Join(IF token[Len(token)] = "\n" THEN SubSeq(token, 1, Len(token) - 1) ELSE token)

\* Parser::get_command: a trailing line feed is removed, then lowercased
GetCommand(token) ==
    LET s == IF token[Len(token)] = "\n" THEN SubSeq(token, 1, Len(token) - 1) ELSE token
    IN  Join([i \in 1..Len(s) |-> Lower(s[i])])

\* Parser::get_args: an argument that is exactly the line feed is skipped
GetArgs(tokens) ==
    LET kept == SelectSeq(tokens, LAMBDA t : t # << "\n" >>)
    IN  [i \in 1..Len(kept) |-> Join(kept[i])]

\* Parser::parse: the command, or the error with the tag that was read
\* (get_tag fails with the empty tag when there is no token or the token is
\* not UTF-8; get_command and get_args fail with the tag when there is no
\* second token or a token is not UTF-8)
ParserParse(buf) ==
    LET tokens == Split(buf) IN
    IF tokens = << >> \/ ~ValidUtf8(tokens[1])
    THEN [ok |-> FALSE, command |-> Command("", "", << >>)]
    ELSE IF Len(tokens) < 2 \/ \E i \in 2..Len(tokens) : ~ValidUtf8(tokens[i])
    THEN [ok |-> FALSE, command |-> Command(Join(tokens[1]), "", << >>)]
    ELSE [ok |-> TRUE,
          command |-> Command(Join(tokens[1]), GetCommand(tokens[2]),
                              GetArgs(SubSeq(tokens, 3, Len(tokens))))]

\* Response::respond: the empty tag is written as "*"
ResponseRespond(response) ==
    [response EXCEPT !.tag = IF @ = "" THEN Untagged ELSE @]

\* BufRead::read_line into a String fails with InvalidData when the bytes
\* of the line are not valid UTF-8
ReadLine(line) == IF InvalidByte \in Range(line) THEN "InvalidData" ELSE "Ok"

\* RequestHandler::handle on one line of the socket: the result of the call
\* and the responses it wrote. A parse error (InvalidInput) is neither
\* should_panic nor can_ignore: the command becomes the error's tag with
\* the empty verb and goes to the default handler
RequestHandle(line) ==
    IF ReadLine(line) # "Ok"
    THEN [result |-> ReadLine(line), out |-> << >>]
    ELSE LET lines == Delegate(ParserParse(line).command)
         IN  [result |-> "Ok", out |-> [i \in 1..Len(lines) |-> ResponseRespond(lines[i])]]

\* the client writes a line to its socket
ClientWrite(line) ==
    /\ srv.sent < MaxLines
    /\ srv' = [srv EXCEPT !.sock = Append(@, line), !.sent = @ + 1]
    /\ UNCHANGED imapVars

\* one iteration of the connection's loop in IMAPServer::start with a
\* line to read: Ok continues, an error that is not can_ignore breaks
IMAPServerHandle ==
    /\ srv.open
    /\ srv.sock # << >>
    /\ LET line == Head(srv.sock)
           h == RequestHandle(line)
       IN  srv' = [srv EXCEPT !.sock = Tail(@),
                              !.wire = Append(@, [line |-> line, result |-> h.result,
                                                  out |-> h.out]),
                              !.open = (h.result = "Ok")]
    /\ UNCHANGED imapVars

\* the loop with nothing to read (WouldBlock is ignored) until the last
\* read is older than the staleness timeout
IMAPServerStale ==
    /\ srv.open
    /\ srv.sock = << >>
    /\ srv' = [srv EXCEPT !.open = FALSE]
    /\ UNCHANGED imapVars

ThreadedInit == HandlerInit

ThreadedNext ==
    \/ \E line \in SocketLines : ClientWrite(line)
    \/ IMAPServerHandle
    \/ IMAPServerStale

ThreadedSpec == ThreadedInit /\ [][ThreadedNext]_vars

\* ---- the serving loop of one connection with its staleness clock
\* (src/src/server.rs: last_read, the stale check at the top of the loop,
\* handler.handle and the match on its result)

\* stale_connection_timeout, in ticks of the clock
StaleTimeout == 1

\* the lines the peer of this loop writes
ProbeLines ==
    { << "a1", " ", "capability", "\n" >>, << "a1", "\n" >>, << InvalidByte, "\n" >> }

\* mutant: only WouldBlock is ignored
CanIgnore_WouldBlockOnly(kind) == kind = "WouldBlock"

\* IMAPError::can_ignore
CanIgnore(kind) == kind \in { "WouldBlock", "TimedOut" }

\* what handler.handle(&stream, &stream) returns: the result of the line at
\* the head of the socket; without a line the read fails with an error the
\* loop ignores while the peer is connected, and is empty (ConnectionAborted)
\* once the peer has closed
HandleResults ==
    IF srv.sock # << >> THEN { RequestHandle(Head(srv.sock)).result }
    ELSE IF srv.peer = "open" THEN { "WouldBlock", "TimedOut" }
    ELSE { "ConnectionAborted" }

\* chrono::Utc::now() advances
Tick ==
    /\ srv.open
    /\ srv.clock.now < MaxTime
    /\ srv' = [srv EXCEPT !.clock.now = @ + 1]
    /\ UNCHANGED imapVars

\* the peer writes a line, or closes its side
PeerWrite ==
    /\ srv.peer = "open"
    /\ \E line \in ProbeLines : ClientWrite(line)

PeerClose ==
    /\ srv.peer = "open"
    /\ srv' = [srv EXCEPT !.peer = "closed"]
    /\ UNCHANGED imapVars

\* one iteration of the loop: break when the last read is older than the
\* timeout; else handle, Ok sets last_read, an ignorable error continues,
\* any other error breaks; after the loop the stream is dropped
ConnectionIteration ==
    /\ srv.open
    /\ IF srv.clock.last_read < srv.clock.now - StaleTimeout
       THEN srv' = [srv EXCEPT !.open = FALSE,
                               !.last = [outcome |-> "Stale", at |-> srv.clock.now]]
       ELSE \E result \in HandleResults :
              LET taken == IF srv.sock = << >> THEN srv
                           ELSE [srv EXCEPT !.sock = Tail(@),
                                            !.wire = Append(@, [line |-> Head(srv.sock),
                                                                result |-> result,
                                                                out |-> RequestHandle(Head(srv.sock)).out])]
              IN  srv' = [taken EXCEPT
                            !.last = [outcome |-> result, at |-> srv.clock.now],
                            !.clock.last_read = IF result = "Ok" THEN srv.clock.now ELSE @,
                            !.open = (result = "Ok" \/ CanIgnore(result))]
    /\ UNCHANGED imapVars

StaleNext ==
    \/ Tick
    \/ PeerWrite
    \/ PeerClose
    \/ ConnectionIteration

StaleSpec == ThreadedInit /\ [][StaleNext]_vars

\* ------------------------------------------------------- broker_loop
\* (src/src/connection.rs: connection_loop reads the name and the lines of
\* a peer and sends events to the broker; broker_loop keeps the map of
\* peers and spawns a connection_writer_loop per registered name, which
\* hands its receiver back on the disconnect channel when it ends.
\* srv.broker.peers maps a name to the connection whose writer holds the
\* receiver of the registered sender)
PeerConns == 1..MaxPeerConns
PeerNames == { "x", "y" }

\* the receiver of the writer of c exists: in the running writer, or in
\* its disconnect message until the broker has taken and dropped it
ReceiverAlive(c) == srv.broker.writer[c] \in { "running", "ended" }

\* every sender of the events channel is dropped: the accept loop has
\* ended and every connection_loop has returned
EventsClosed ==
    /\ ~srv.broker.accepting
    /\ \A c \in PeerConns : srv.broker.reader[c] \in { "none", "done" }

\* the accept loop spawns connection_loop for a stream
PeerAccept(c) ==
    /\ srv.broker.accepting
    /\ srv.broker.reader[c] = "none"
    /\ \A d \in PeerConns : d < c => srv.broker.reader[d] # "none"
    /\ srv' = [srv EXCEPT !.broker.reader[c] = "fresh"]
    /\ UNCHANGED imapVars

\* the accept loop ends and drops its sender
PeerAcceptEnd ==
    /\ srv.broker.accepting
    /\ srv' = [srv EXCEPT !.broker.accepting = FALSE]
    /\ UNCHANGED imapVars

\* connection_loop: the first line is the name, sent as NewPeer; a peer
\* that disconnects at once makes the loop return
ConnectionLoopNewPeer(c) ==
    /\ srv.broker.reader[c] = "fresh"
    /\ \/ \E name \in PeerNames :
            srv' = [srv EXCEPT !.broker.reader[c] = "named",
                               !.broker.name[c] = name,
                               !.broker.events = Append(@, [kind |-> "NewPeer", name |-> name,
                                                            conn |-> c, to |-> {}])]
       \/ srv' = [srv EXCEPT !.broker.reader[c] = "done"]
    /\ UNCHANGED imapVars

\* connection_loop: a line 'dest, dest: msg' is sent as Message
ConnectionLoopMessage(c) ==
    /\ srv.broker.reader[c] = "named"
    /\ srv.broker.messages < MaxMessages
    /\ \E to \in SUBSET PeerNames \ { {} } :
          srv' = [srv EXCEPT !.broker.messages = @ + 1,
                             !.broker.events = Append(@, [kind |-> "Message",
                                                          name |-> srv.broker.name[c],
                                                          conn |-> c, to |-> to])]
    /\ UNCHANGED imapVars

\* connection_loop: the lines end; the sender of the events channel and
\* _shutdown_sender are dropped
ConnectionLoopEnd(c) ==
    /\ srv.broker.reader[c] = "named"
    /\ srv' = [srv EXCEPT !.broker.reader[c] = "done"]
    /\ UNCHANGED imapVars

\* mutant: NewPeer inserts the new sender whether or not the name is
\* registered, and spawns its writer
BrokerNewPeer_Insert ==
    /\ srv.broker.pc = "loop"
    /\ srv.broker.events # << >>
    /\ Head(srv.broker.events).kind = "NewPeer"
    /\ LET event == Head(srv.broker.events) IN
       srv' = [srv EXCEPT !.broker.events = Tail(@),
                          !.broker.peers = [n \in DOMAIN @ \cup { event.name } |->
                                               IF n = event.name THEN event.conn ELSE @[n]],
                          !.broker.writer[event.conn] = "running"]
    /\ UNCHANGED imapVars

\* broker_loop: NewPeer. Entry::Occupied does nothing (the stream and the
\* shutdown receiver of the event are dropped); Entry::Vacant inserts the
\* sender and spawns the writer
BrokerNewPeer ==
    /\ srv.broker.pc = "loop"
    /\ srv.broker.events # << >>
    /\ Head(srv.broker.events).kind = "NewPeer"
    /\ LET event == Head(srv.broker.events) IN
       IF event.name \in DOMAIN srv.broker.peers
       THEN srv' = [srv EXCEPT !.broker.events = Tail(@)]
       ELSE srv' = [srv EXCEPT !.broker.events = Tail(@),
                               !.broker.peers = [n \in DOMAIN @ \cup { event.name } |->
                                                    IF n = event.name THEN event.conn ELSE @[n]],
                               !.broker.writer[event.conn] = "running"]
    /\ UNCHANGED imapVars

\* broker_loop: Message. peer.send(msg).await.unwrap() for every
\* registered addressee; the send fails when the receiver was dropped
BrokerMessage ==
    /\ srv.broker.pc = "loop"
    /\ srv.broker.events # << >>
    /\ Head(srv.broker.events).kind = "Message"
    /\ LET event == Head(srv.broker.events)
           dests == { srv.broker.peers[n] : n \in event.to \cap DOMAIN srv.broker.peers } IN
       srv' = [srv EXCEPT !.broker.events = Tail(@),
                          !.broker.inbox = [c \in PeerConns |->
                                               IF c \in dests /\ ReceiverAlive(c)
                                               THEN @[c] + 1 ELSE @[c]],
                          !.broker.sendFailed = @ \/ \E c \in dests : ~ReceiverAlive(c)]
    /\ UNCHANGED imapVars

\* broker_loop: a disconnect message. assert!(peers.remove(&name).is_some())
\* and the receiver carried by the message is dropped
BrokerDisconnect ==
    /\ srv.broker.pc = "loop"
    /\ srv.broker.disconnects # << >>
    /\ LET d == Head(srv.broker.disconnects) IN
       srv' = [srv EXCEPT !.broker.disconnects = Tail(@),
                          !.broker.assertFailed = @ \/ d.name \notin DOMAIN srv.broker.peers,
                          !.broker.peers = [n \in DOMAIN @ \ { d.name } |-> @[n]],
                          !.broker.writer[d.conn] = "gone",
                          !.broker.inbox[d.conn] = 0]
    /\ UNCHANGED imapVars

\* broker_loop: events.next() yields None; the loop breaks, peers and the
\* broker's disconnect sender are dropped
BrokerBreak ==
    /\ srv.broker.pc = "loop"
    /\ srv.broker.events = << >>
    /\ EventsClosed
    /\ srv' = [srv EXCEPT !.broker.pc = "draining", !.broker.peers = << >>]
    /\ UNCHANGED imapVars

\* broker_loop: the disconnect channel is drained until every writer has
\* dropped its sender
BrokerDrain ==
    /\ srv.broker.pc = "draining"
    /\ IF srv.broker.disconnects # << >>
       THEN srv' = [srv EXCEPT !.broker.disconnects = Tail(@),
                               !.broker.writer[Head(srv.broker.disconnects).conn] = "gone",
                               !.broker.inbox[Head(srv.broker.disconnects).conn] = 0]
       ELSE /\ \A c \in PeerConns : srv.broker.writer[c] # "running"
            /\ srv' = [srv EXCEPT !.broker.pc = "done"]
    /\ UNCHANGED imapVars

\* connection_writer_loop: a message is written to the stream
ConnectionWriterWrite(c) ==
    /\ srv.broker.writer[c] = "running"
    /\ srv.broker.inbox[c] > 0
    /\ srv' = [srv EXCEPT !.broker.inbox[c] = @ - 1, !.broker.written[c] = @ + 1]
    /\ UNCHANGED imapVars

\* connection_writer_loop returns: the shutdown channel is closed (the
\* connection_loop of c has returned), the messages channel is closed (the
\* broker has dropped peers), or a write failed; the spawned task then
\* sends (name, client_receiver) on the disconnect channel
ConnectionWriterEnd(c) ==
    /\ srv.broker.writer[c] = "running"
    /\ \/ srv.broker.reader[c] = "done"
       \/ srv.broker.pc # "loop" /\ srv.broker.inbox[c] = 0
       \/ srv.broker.inbox[c] > 0
    /\ srv' = [srv EXCEPT !.broker.writer[c] = "ended",
                          !.broker.disconnects = Append(@, [name |-> srv.broker.name[c],
                                                            conn |-> c])]
    /\ UNCHANGED imapVars

BrokerNext ==
    \/ \E c \in PeerConns :
          \/ PeerAccept(c)
          \/ ConnectionLoopNewPeer(c)
          \/ ConnectionLoopMessage(c)
          \/ ConnectionLoopEnd(c)
          \/ ConnectionWriterWrite(c)
          \/ ConnectionWriterEnd(c)
    \/ PeerAcceptEnd
    \/ BrokerNewPeer
    \/ BrokerMessage
    \/ BrokerDisconnect
    \/ BrokerBreak
    \/ BrokerDrain

BrokerSpec == HandlerInit /\ [][BrokerNext]_vars

\* --------------------------------------------------- InMemoryUserStore
\* (src/src/auth/inmemory.rs: users is a HashMap from the name to the User,
\* held here as the set of its values)
UserNames == { "alice", "bob", "carol" }
Passwords == { "pw1", "pw2" }

\* HashMap::contains_key and HashMap::get on the name
ContainsKey(users, name) == \E u \in users : u.name = name
HashMapGet(users, name) ==
    IF ContainsKey(users, name) THEN Some(CHOOSE u \in users : u.name = name) ELSE None

\* HashMap::insert: the entry of the key is replaced, the old value returned
HashMapInsert(users, user) ==
    [old |-> HashMapGet(users, user.name),
     map |-> { u \in users : u.name # user.name } \cup { user }]

\* mutant: add without the contains_key test, relying on insert's result
InMemoryUserStoreAdd_InsertFirst(users, user) ==
    LET ins == HashMapInsert(users, user) IN
    [ok |-> ~IsSome(ins.old), users |-> ins.map]

\* InMemoryUserStore::add: Err(UserAlreadyExists) when the name is a key,
\* else the user is inserted
InMemoryUserStoreAdd(users, user) ==
    IF ContainsKey(users, user.name)
    THEN [ok |-> FALSE, users |-> users]
    ELSE LET ins == HashMapInsert(users, user) IN
         [ok |-> ~IsSome(ins.old), users |-> ins.map]

\* InMemoryUserStore::get
InMemoryUserStoreGet(users, username) == HashMapGet(users, username)

\* store.add(User::new(name, password)).await; the call is kept
UserStoreAddCall ==
    /\ \E name \in UserNames, password \in Passwords :
          LET user == User(name, password)
              res == InMemoryUserStoreAdd(srv.users, user)
          IN  srv' = [srv EXCEPT !.users = res.users,
                                 !.userCalls = << [op |-> "add", user |-> user,
                                                   before |-> srv.users, ok |-> res.ok,
                                                   found |-> None] >>]
    /\ UNCHANGED imapVars

\* store.get(name).await; the call is kept
UserStoreGetCall ==
    /\ \E name \in UserNames :
          srv' = [srv EXCEPT !.userCalls = << [op |-> "get", user |-> User(name, "pw1"),
                                              before |-> srv.users, ok |-> TRUE,
                                              found |-> InMemoryUserStoreGet(srv.users, name)] >>]
    /\ UNCHANGED imapVars

UserStoreNext == UserStoreAddCall \/ UserStoreGetCall

UserStoreSpec == HandlerInit /\ [][UserStoreNext]_vars

\* ------------------------------------------- InMemoryAuthenticator::start
\* (src/src/auth/inmemory.rs, started on its own as test_can_authenticate
\* does: srv.auth holds the request channel, the oneshots answered in the
\* order they were answered, and the position of start; every sender of a
\* request awaits its oneshot)

\* mutant: the principal is not verified against the stored hash
AuthenticatorResult_AnyPassword(principal) ==
    LET found == HashMapGet(UserStore, principal.username) IN
    IF IsSome(found) THEN AuthOk(Unwrap(found)) ELSE AuthErr("UserDoesNotExist")

\* the value start sends on the oneshot of a request
AuthenticatorResult(principal) ==
    LET found == HashMapGet(UserStore, principal.username) IN
    IF ~IsSome(found)
    THEN AuthErr("UserDoesNotExist")
    ELSE IF BasicAuthAuthenticate(principal, Unwrap(found))
    THEN AuthOk(Unwrap(found))
    ELSE AuthErr("AuthenticationFailed")

\* sender.send(AuthRequest { responder, principal }).await
AuthRequestSend ==
    /\ ~srv.auth.closed
    /\ srv.auth.sent < MaxAuthRequests
    /\ \E name \in UserNames, password \in Passwords :
          srv' = [srv EXCEPT !.auth.queue =
                                Append(@, [oneshot |-> srv.auth.sent + 1,
                                           principal |-> BasicAuthFrom(name, password)]),
                             !.auth.sent = @ + 1]
    /\ UNCHANGED imapVars

\* drop(sender)
AuthSenderDrop ==
    /\ ~srv.auth.closed
    /\ srv' = [srv EXCEPT !.auth.closed = TRUE]
    /\ UNCHANGED imapVars

\* start: one iteration of the while let loop
AuthenticatorServe ==
    /\ srv.auth.pc = "running"
    /\ srv.auth.queue # << >>
    /\ LET request == Head(srv.auth.queue) IN
       srv' = [srv EXCEPT !.auth.queue = Tail(@),
                          !.auth.answered =
                              Append(@, [oneshot |-> request.oneshot,
                                         principal |-> request.principal,
                                         result |-> AuthenticatorResult(request.principal)])]
    /\ UNCHANGED imapVars

\* start: requests.next() yields None, the loop ends with Ok(())
AuthenticatorReturn ==
    /\ srv.auth.pc = "running"
    /\ srv.auth.queue = << >>
    /\ srv.auth.closed
    /\ srv' = [srv EXCEPT !.auth.pc = "returned_ok"]
    /\ UNCHANGED imapVars

AuthNext ==
    \/ AuthRequestSend
    \/ AuthSenderDrop
    \/ AuthenticatorServe
    \/ AuthenticatorReturn

AuthSpec == HandlerInit /\ [][AuthNext]_vars

\* the spawned task is scheduled while it can take a step
FairAuthSpec == AuthSpec /\ WF_vars(AuthenticatorServe \/ AuthenticatorReturn)

\* ------------------------------------------------------- Parser::parse
\* (src/src/parser.rs: the parser called on a buffer of bytes, as its
\* tests call it)

\* the buffers handed to parse: any pieces, with or without a line feed
ParseInputs == UNION { [1..n -> Pieces] : n \in 0..MaxPieces }

\* parser.parse(input), called once: the buffer and the result are kept
ParserParseCall ==
    /\ srv.parsed = << >>
    /\ \E input \in ParseInputs :
           srv' = [srv EXCEPT !.parsed = << [input |-> input, result |-> ParserParse(input)] >>]
    /\ UNCHANGED imapVars

ParseNext == ParserParseCall

ParseSpec == HandlerInit /\ [][ParseNext]_vars

\* ------------------------------------------------------------ properties
\* the batches sent on the response channel of c, in the order sent, and
\* the events sent on its event channel
AllBatches(c) == sockOut[c] \o respq[c]
AllEvents(c) == applied[c] \o evq[c]
\* batches that answer a request (the greeting has id 0)
Answers(c) == { b \in Range(AllBatches(c)) : b.id >= 1 }
IsUntaggedLine(line) == line.tag \in { Untagged, "" }
\* the batches of both generations of handlers, as line sequences
ProducedLines ==
    { b.lines : b \in UNION { Answers(c) : c \in Conns } } \cup { b.lines : b \in Range(syncOut) }

\* C2 (as stated): in every batch a handler produces exactly one line has a
\* STATUS, it is the last line, and all earlier lines are untagged data lines.
C2_ExactlyOneStatusLine ==
    \A lines \in ProducedLines :
        /\ Len(lines) >= 1
        /\ HasStatus(Last(lines))
        /\ \A i \in 1..(Len(lines) - 1) : IsUntaggedLine(lines[i]) /\ ~HasStatus(lines[i])

\* C2 (amended): every batch is non-empty, its last line has a STATUS and all
\* earlier lines are untagged; an untagged line may itself carry a status
\* word.  The batches of the workers end with a tagged line.
C2_StatusLineLast ==
    /\ \A lines \in ProducedLines :
          /\ Len(lines) >= 1
          /\ HasStatus(Last(lines))
          /\ \A i \in 1..(Len(lines) - 1) : IsUntaggedLine(lines[i])
    /\ \A c \in Conns : \A b \in Answers(c) : ~IsUntaggedLine(Last(b.lines))

\* C2 witness: a SELECT batch of seven lines and a CAPABILITY batch of two
C2_Witness ==
    /\ \E c \in Conns : \E b \in Answers(c) : Len(b.lines) = 7
    /\ \E b \in Range(syncOut) : Len(b.lines) = 2

\* C3: every tagged response a worker sends carries the tag of the command
\* of the request it answers.
C3_TagOfCommand ==
    \A c \in Conns : \A b \in Answers(c) : \A i \in 1..Len(b.lines) :
        ~IsUntaggedLine(b.lines[i]) => b.lines[i].tag = reqs[c][b.id].command.tag

EventsOf(c, id, kind) == { e \in Range(AllEvents(c)) : e.id = id /\ e.kind = kind }
BatchesOf(c, id) == { b \in Answers(c) : b.id = id }
SelectRequests(c) == { r \in Range(reqs[c]) : r.command.verb = "SELECT" }
FetchRequests(c) == { r \in Range(reqs[c]) : r.command.verb = "FETCH" }

UnauthenticatedSelectReply(lines) ==
    /\ Len(lines) = 1
    /\ ~IsUntaggedLine(lines[1])
    /\ lines[1].status = "NO"
    /\ lines[1].message =
         << "cannot SELECT when un-authenticated. Please authenticate using LOGIN or AUTHENTICATE." >>

NoIndexNoEvent(c, r) ==
    /\ << r.id, "get_mailbox" >> \notin calls[c]
    /\ EventsOf(c, r.id, "SELECT") = {}

\* C4 (as stated): any SELECT whose snapshot has no user is answered with one
\* tagged NO "cannot SELECT when un-authenticated...", no mailbox request is
\* sent for it and no Selected event is emitted.
C4_AnySelect ==
    \A c \in Conns : \A r \in SelectRequests(c) :
        ~IsAuthenticated(r.context) =>
            /\ NoIndexNoEvent(c, r)
            /\ \A b \in BatchesOf(c, r.id) : UnauthenticatedSelectReply(b.lines)

\* C4 (amended): the same for a SELECT with at least one argument; without
\* an argument the answer is BAD "insufficient arguments".
C4_SelectWithArgument ==
    \A c \in Conns : \A r \in SelectRequests(c) :
        ~IsAuthenticated(r.context) =>
            /\ NoIndexNoEvent(c, r)
            /\ Cardinality(BatchesOf(c, r.id)) <= 1
            /\ \A b \in BatchesOf(c, r.id) :
                  IF NumArgs(r.command) >= 1
                  THEN UnauthenticatedSelectReply(b.lines)
                  ELSE b.lines = InsufficientArguments(r)

\* C4 witness: an un-authenticated SELECT INBOX has been answered while the
\* worker is idle again
C4_Witness ==
    \E c \in Conns : \E r \in SelectRequests(c) :
        /\ ~IsAuthenticated(r.context)
        /\ NumArgs(r.command) >= 1
        /\ BatchesOf(c, r.id) # {}
        /\ wk["SELECT"].pc = "idle"

FetchNo(lines, text) ==
    /\ Len(lines) = 1
    /\ ~IsUntaggedLine(lines[1])
    /\ lines[1].status = "NO"
    /\ lines[1].message = << text >>

\* C5: a FETCH with an argument gets the body and the tagged OK only when its
\* snapshot is authenticated and selected; otherwise one tagged NO and no
\* body line.
C5_FetchPrechecks ==
    \A c \in Conns : \A r \in FetchRequests(c) : \A b \in BatchesOf(c, r.id) :
        NumArgs(r.command) >= 1 =>
            IF ~IsAuthenticated(r.context)
            THEN FetchNo(b.lines,
                   "cannot FETCH when un-authenticated. Please authenticate using LOGIN or AUTHENTICATE.")
            ELSE IF ~IsSelected(r.context)
            THEN FetchNo(b.lines, "cannot FETCH before SELECT. Please SELECT a folder.")
            ELSE b.lines = FetchCompleted(r)

\* the state-mutating event of a command that completed with this batch
MutatingEvent(r, lines) ==
    IF Last(lines).status # "OK" THEN None
    ELSE CASE r.command.verb = "LOGIN" -> Some("AUTH")
           [] r.command.verb = "SELECT" -> Some("SELECT")
           [] r.command.verb = "LOGOUT" -> Some("UNAUTH")
           [] OTHER -> None

\* C10: when the terminal tagged response of a command is on the response
\* channel, the state-mutating event of that command (Authenticated for
\* LOGIN, Selected for SELECT, Unauthenticated for LOGOUT) has already been
\* sent on the event channel.
C10_EventBeforeResponse ==
    \A c \in Conns : \A b \in Answers(c) :
        LET r == reqs[c][b.id]
            ev == MutatingEvent(r, b.lines) IN
        IsSome(ev) => Cardinality(EventsOf(c, r.id, Unwrap(ev))) = 1

\* C10 witness: a completed LOGIN, SELECT or LOGOUT with its event sent
C10_Witness ==
    \E c \in Conns : \E b \in Answers(c) :
        /\ reqs[c][b.id].command.verb = "SELECT"
        /\ IsSome(MutatingEvent(reqs[c][b.id], b.lines))

\* C1: the writer writes the batches of a connection in the order in which
\* the reader dispatched the commands they answer.
C1_FifoPerConnection ==
    \A c \in Conns : \A i, j \in 1..Len(sockOut[c]) :
        i < j => sockOut[c][i].id < sockOut[c][j].id

\* C6: a SELECT the client sent after it had read the tagged OK of a LOGIN
\* (and before any LOGOUT) is dispatched with an authenticated snapshot and
\* is never answered NO "cannot SELECT when un-authenticated...".
C6_SelectAfterLoginOk ==
    \A c \in Conns : \A r \in SelectRequests(c) :
        r.awaited =>
            /\ IsAuthenticated(r.context)
            /\ \A b \in BatchesOf(c, r.id) : ~UnauthenticatedSelectReply(b.lines)

\* C7: once Authenticated(u) has been applied, every snapshot taken later
\* shows user = Some(u) as long as no Unauthenticated has been applied.
C7_UserUntilUnauthenticated ==
    \A c \in Conns : \A r \in Range(reqs[c]) : \A i \in 1..r.seen :
        ( /\ applied[c][i].kind = "AUTH"
          /\ \A j \in (i + 1)..r.seen : applied[c][j].kind # "UNAUTH" )
        => r.context.user = applied[c][i].user

LogoutRequests(c) == { r \in Range(reqs[c]) : r.command.verb = "LOGOUT" }
IsLogoutBatch(c, b) == b.id >= 1 /\ reqs[c][b.id].command.verb = "LOGOUT"

\* C8: a LOGOUT is answered with exactly one tagged OK "LOGOUT completed.
\* Goodbye!" and the writer writes nothing on the connection after it.
C8_NothingAfterLogout ==
    \A c \in Conns :
        /\ \A r \in LogoutRequests(c) :
              /\ Cardinality(BatchesOf(c, r.id)) <= 1
              /\ \A b \in BatchesOf(c, r.id) : b.lines = LogoutCompleted(r)
        /\ \A i, j \in 1..Len(sockOut[c]) :
              (i < j) => ~IsLogoutBatch(c, sockOut[c][i])

LogoutOkWritten(c) == \E i \in 1..Len(sockOut[c]) : IsLogoutBatch(c, sockOut[c][i])

\* C9: once the tagged OK of a LOGOUT has been written, the connection is
\* eventually closed: reader, writer and state manager have all exited.
C9_ClosesAfterLogout ==
    \A c \in Conns : LogoutOkWritten(c) ~> Closed(c)

\* C11: at most max_connections connection tasks run at any time, and a
\* token is out exactly for the tasks that were admitted and have not ended;
\* a connection is admitted only while fewer than max_connections tokens
\* are out.
C11_Backpressure ==
    /\ Cardinality(Running) <= MaxConnections
    /\ srv.tokens = Running
    /\ srv.backlog \cap Running = {}

\* C11 witness: max_connections tasks run and a further connection waits in
\* the backlog
C11_Witness ==
    /\ Cardinality(Running) = MaxConnections
    /\ srv.backlog # {}
    /\ \E s \in Running : srv.pc[s] = "lines"

IsGreeting(b) ==
    /\ Len(b.lines) = 1
    /\ b.lines[1].tag = "*"
    /\ b.lines[1].status = "OK"
    /\ b.lines[1].message = << "IMAP4rev2 server ready" >>

\* C12: on every connection the greeting '* OK IMAP4rev2 server ready' is
\* enqueued exactly once and is the first batch the writer writes; every
\* answer to a command is written after it.
C12_GreetingFirst ==
    \A c \in Conns :
        /\ Cardinality({ i \in 1..Len(AllBatches(c)) : IsGreeting(AllBatches(c)[i]) }) = 1
        /\ sockOut[c] # << >> => IsGreeting(sockOut[c][1])
        /\ \A i \in 2..Len(sockOut[c]) : sockOut[c][i].id >= 1

\* C12 witness: the greeting and the answer to a command have been written
C12_Witness ==
    \E c \in Conns :
        /\ Len(sockOut[c]) >= 2
        /\ IsGreeting(sockOut[c][1])
        /\ sockOut[c][2].id >= 1

LoginRequests(c) == { r \in Range(reqs[c]) : r.command.verb = "LOGIN" }

\* the authenticator accepts the principal of a LOGIN command
Accepts(command) ==
    LET name == StripQuotes(Arg(command, 1))
        found == UserStoreGet(name) IN
    /\ IsSome(found)
    /\ BasicAuthAuthenticate(BasicAuthFrom(name, Arg(command, 2)), Unwrap(found))

\* C13: a LOGIN with at least two arguments whose principal the
\* authenticator accepts is answered with the one line '{tag} OK LOGIN
\* completed. Welcome {name}.', and by then exactly one Authenticated event,
\* carrying the user of that name, has been emitted for it.
C13_LoginSuccess ==
    \A c \in Conns : \A r \in LoginRequests(c) :
        (NumArgs(r.command) >= 2 /\ Accepts(r.command)) =>
            /\ Cardinality(BatchesOf(c, r.id)) <= 1
            /\ \A b \in BatchesOf(c, r.id) :
                  /\ b.lines = << [tag |-> r.command.tag, status |-> "OK",
                                   message |-> << "LOGIN completed. Welcome",
                                                  StripQuotes(Arg(r.command, 1)), "." >>] >>
                  /\ Cardinality({ i \in 1..Len(AllEvents(c)) :
                                     AllEvents(c)[i].id = r.id }) = 1
                  /\ \A e \in EventsOf(c, r.id, "AUTH") :
                        /\ IsSome(e.user)
                        /\ Unwrap(e.user).name = StripQuotes(Arg(r.command, 1))
                  /\ EventsOf(c, r.id, "AUTH") # {}

\* C13 witness: an accepted LOGIN, its name sent in quotes, has been answered
C13_Witness ==
    \E c \in Conns : \E r \in LoginRequests(c) :
        /\ NumArgs(r.command) >= 2
        /\ Accepts(r.command)
        /\ Arg(r.command, 1) # StripQuotes(Arg(r.command, 1))
        /\ BatchesOf(c, r.id) # {}

\* LOGIN requests with a principal the authenticator rejects
RejectedLogins(c) ==
    { r \in LoginRequests(c) : NumArgs(r.command) >= 2 /\ ~Accepts(r.command) }
AnyEventsOf(c, id) == { e \in Range(AllEvents(c)) : e.id = id }

\* C14: a LOGIN the authenticator rejects is answered with the one line
\* '{tag} BAD LOGIN failed.' and no event is ever emitted for it, so the
\* state manager has nothing to apply and the session context stays as it
\* was.
C14_LoginFailure ==
    \A c \in Conns : \A r \in RejectedLogins(c) :
        /\ AnyEventsOf(c, r.id) = {}
        /\ Cardinality(BatchesOf(c, r.id)) <= 1
        /\ \A b \in BatchesOf(c, r.id) :
              b.lines = << [tag |-> r.command.tag, status |-> "BAD",
                            message |-> << "LOGIN failed." >>] >>

\* C14 witness: a rejected LOGIN has been answered
C14_Witness ==
    \E c \in Conns : \E r \in RejectedLogins(c) :
        /\ BatchesOf(c, r.id) # {}
        /\ wk["LOGIN"].pc = "idle"

\* what the client can observe of a LOGIN: the lines of its batch without
\* the tag it chose itself, and the events emitted for it
Untag(lines) == [ i \in 1..Len(lines) |-> [lines[i] EXCEPT !.tag = ""] ]
UnknownUser(command) == ~IsSome(UserStoreGet(StripQuotes(Arg(command, 1))))

\* C15: the batch and the events of a failed LOGIN are the same for an
\* unknown username and for a known username with a wrong password: both
\* are the single line BAD 'LOGIN failed.' and no event.
C15_NonDisclosure ==
    LET failed == << [tag |-> "", status |-> "BAD", message |-> << "LOGIN failed." >>] >> IN
    \A c \in Conns : \A r \in RejectedLogins(c) : \A b \in BatchesOf(c, r.id) :
        /\ UnknownUser(r.command) => (Untag(b.lines) = failed /\ AnyEventsOf(c, r.id) = {})
        /\ ~UnknownUser(r.command) => (Untag(b.lines) = failed /\ AnyEventsOf(c, r.id) = {})

\* C15 witness: a LOGIN of a known user with a wrong password has been
\* answered
C15_Witness ==
    \E c \in Conns : \E r \in RejectedLogins(c) :
        /\ ~UnknownUser(r.command)
        /\ BatchesOf(c, r.id) # {}

\* C15 witness of the other case: unknown users are rejected too
C15_UnknownUserAnswered ==
    \E c \in Conns : \E r \in RejectedLogins(c) :
        /\ UnknownUser(r.command)
        /\ BatchesOf(c, r.id) # {}

\* requests with fewer arguments than their verb needs
TooFewArguments(command) ==
    \/ command.verb = "LOGIN" /\ NumArgs(command) < 2
    \/ command.verb \in { "SELECT", "FETCH" } /\ NumArgs(command) < 1
NoEffects(c, r) ==
    /\ AnyEventsOf(c, r.id) = {}
    /\ << r.id, "authenticate" >> \notin calls[c]
    /\ << r.id, "get_mailbox" >> \notin calls[c]

\* C16: a LOGIN with fewer than two arguments and a SELECT or FETCH without
\* an argument are answered with the one line '{tag} BAD insufficient
\* arguments'; no event is emitted and neither the authenticator nor the
\* mailbox index is called for the request.
C16_InsufficientArguments ==
    \A c \in Conns : \A r \in Range(reqs[c]) :
        TooFewArguments(r.command) =>
            /\ NoEffects(c, r)
            /\ Cardinality(BatchesOf(c, r.id)) <= 1
            /\ \A b \in BatchesOf(c, r.id) :
                  b.lines = << [tag |-> r.command.tag, status |-> "BAD",
                                message |-> << "insufficient arguments" >>] >>

\* C16 witness: a LOGIN with one argument has been answered
C16_Witness ==
    \E c \in Conns : \E r \in LoginRequests(c) :
        /\ NumArgs(r.command) = 1
        /\ BatchesOf(c, r.id) # {}

\* C17: a worker that is sent a command of another verb answers with the
\* one line '{tag} BAD verb mismatch', emits no event and calls neither the
\* authenticator nor the mailbox index.
C17_VerbMismatch ==
    \A c \in Conns : \A r \in Range(reqs[c]) :
        r.worker # r.command.verb =>
            /\ NoEffects(c, r)
            /\ \A b \in BatchesOf(c, r.id) :
                  b.lines = << [tag |-> r.command.tag, status |-> "BAD",
                                message |-> << "verb mismatch" >>] >>

\* C18: a command whose verb has no registered handler is answered with
\* exactly one response, a BAD "Command unknown" with the command's tag;
\* the synchronous handlers and the delegating handler answer in place and
\* put nothing on a worker's channel
NoHandler(b) ==
    IF b.by = "RequestHandler"
    THEN b.command.verb \notin {"login", "capability"}
    ELSE b.command.verb \notin Registered

UnknownTexts(command) ==
    { << "Command unknown" >>, << "Command '", command.verb, "' unknown" >> }

C18_UnknownVerb ==
    \A b \in Range(syncOut) :
        NoHandler(b) =>
            /\ Len(b.lines) = 1
            /\ b.lines[1].tag = b.command.tag
            /\ b.lines[1].status = "BAD"
            /\ b.lines[1].message \in UnknownTexts(b.command)

\* C19: a line that cannot be parsed into a command (an invalid byte, or
\* fewer than two tokens once the line feed is trimmed) is answered with
\* exactly one BAD response carrying the line's tag, or "*" when no tag
\* could be read, and the call returns Ok so that the connection's loop goes
\* on to the next line
Trimmed(line) == SelectSeq(line, LAMBDA p : p # "\n")

Malformed(line) ==
    \/ InvalidByte \in Range(line)
    \/ Len(Split(Trimmed(line))) < 2

TagOfLine(line) ==
    LET tokens == Split(Trimmed(line)) IN
    IF tokens = << >> \/ InvalidByte \in Range(tokens[1])
    THEN Untagged
    ELSE Join(tokens[1])

C19_MalformedLine ==
    \A i \in 1..Len(srv.wire) :
        LET e == srv.wire[i] IN
        Malformed(e.line) =>
            /\ e.result = "Ok"
            /\ Len(e.out) = 1
            /\ e.out[1].status = "BAD"
            /\ e.out[1].tag = TagOfLine(e.line)

\* C20: every request a worker has consumed and finished serving has
\* exactly one batch on its connection's response channel, a request still
\* queued or being served has none, and no request ever has two; so the
\* batch of a request is sent before the worker takes the next one
Pending(r) ==
    \E q \in Range(reqq[r.worker]) : q.conn = r.conn /\ q.id = r.id

Current(r) ==
    /\ wk[r.worker].req # None
    /\ wk[r.worker].req[1].conn = r.conn
    /\ wk[r.worker].req[1].id = r.id

NumBatches(r) ==
    Cardinality({ i \in 1..Len(AllBatches(r.conn)) : AllBatches(r.conn)[i].id = r.id })

C21_NeverReturnsErr ==
    \A v \in Verbs : wk[v] # ReturnedErr

\* C22: once every sender of a worker's request channel is dropped, the
\* worker serves what is queued and its start returns Ok; it returns only
\* on the closed and empty channel
C22_ReturnsOkOnClose ==
    \A v \in Verbs : (v \in srv.closed) ~> (wk[v] = ReturnedOk)

C22_Witness ==
    \E v \in Verbs :
        /\ wk[v] = ReturnedOk
        /\ \E c \in Conns : \E r \in Range(reqs[c]) : r.worker = v /\ NumBatches(r) = 1

\* C23: after a shutdown trigger of a connection (the reader has ended on
\* EOF, or the state manager has applied Unauthenticated and signalled the
\* oneshot) the reader, the writer and the state manager all exit and the
\* runtime, which awaits the three, returns
ShutdownTriggered(c) == shutdown[c] \/ rdr[c] = "done"

C23_ShutdownCompletes ==
    \A c \in Conns : ShutdownTriggered(c) ~> Closed(c)

\* C24: the writer has exited only when every sender of the response
\* channel is dropped (the reader has ended and no request of the
\* connection is queued or being served) and the channel is drained: every
\* command the reader dispatched or answered has its batch on the socket,
\* once, and so has the greeting
Written(c, id) == { i \in 1..Len(sockOut[c]) : sockOut[c][i].id = id }

C24_WriterDrains ==
    \A c \in Conns :
        wtr[c] = "done" =>
            /\ SendersDropped(c)
            /\ respq[c] = << >>
            /\ Cardinality(Written(c, 0)) = 1
            /\ \A r \in Range(reqs[c]) : Cardinality(Written(c, r.id)) = 1

C24_Witness ==
    \E c \in Conns :
        /\ wtr[c] = "done"
        /\ Len(reqs[c]) >= 2
        /\ shutdown[c]
        /\ \E r \in LogoutRequests(c) : Written(c, r.id) # {}

\* C25: the state manager takes the events of its connection one at a
\* time from the head of the channel; the context is the default context
\* with, for each applied event in order, Authenticated setting the user,
\* Selected setting the folder and Unauthenticated clearing both; the
\* shutdown oneshot is signalled exactly when an Unauthenticated was applied
RECURSIVE ContextAfter(_)
ContextAfter(events) ==
    IF events = << >>
    THEN DefaultContext
    ELSE LET before == ContextAfter(SubSeq(events, 1, Len(events) - 1))
             e == events[Len(events)]
         IN  IF e.kind = "AUTH" THEN Context(e.user, before.selected_folder)
             ELSE IF e.kind = "SELECT" THEN Context(before.user, e.folder)
             ELSE Context(None, None)

C25_ContextIsFold ==
    \A c \in Conns :
        /\ ctx[c] = ContextAfter(applied[c])
        /\ shutdown[c] = (\E e \in Range(applied[c]) : e.kind = "UNAUTH")

C25_OneAtATime ==
    \A c \in Conns :
        applied'[c] # applied[c] =>
            /\ evq[c] # << >>
            /\ applied'[c] = Append(applied[c], Head(evq[c]))
            /\ evq'[c] = Tail(evq[c])

C25_StateManager == [] C25_ContextIsFold /\ [][C25_OneAtATime]_vars

C25_Witness ==
    \E c \in Conns :
        /\ Len(applied[c]) = 3
        /\ applied[c][1].kind = "AUTH"
        /\ applied[c][2].kind = "SELECT"
        /\ applied[c][3].kind = "UNAUTH"
        /\ ctx[c] = DefaultContext
        /\ shutdown[c]

\* C26: the context of a connection changes only in a step of that
\* connection's state manager, and a SELECT is decided on the snapshot the
\* reader put into the request: it is refused as un-authenticated exactly
\* when the snapshot has no user, whatever the context is by then
C26_OnlyStateManager ==
    \A c \in Conns : ctx'[c] # ctx[c] => StateManagerApply(c)

C26_ActsOnSnapshot ==
    \A c \in Conns : \A r \in SelectRequests(c) : \A b \in BatchesOf(c, r.id) :
        SelectValidate(r.command) =>
            (UnauthenticatedSelectReply(b.lines) <=> ~IsAuthenticated(r.context))

C26_SingleWriter == [] C26_ActsOnSnapshot /\ [][C26_OnlyStateManager]_vars

\* the context was updated between the dispatch of a SELECT and its answer
C26_Witness ==
    \E c \in Conns : \E r \in SelectRequests(c) :
        /\ SelectValidate(r.command)
        /\ ~IsAuthenticated(r.context)
        /\ IsAuthenticated(ctx[c])
        /\ Len(applied[c]) > r.seen
        /\ BatchesOf(c, r.id) # {}

\* C27: a LOGOUT shuts down its own connection only. A connection has its
\* shutdown signalled only if it sent a LOGOUT itself, and a task of it has
\* ended only if it sent a LOGOUT or its client closed; no worker has
\* returned; and a step that serves a LOGOUT of a connection, applies its
\* Unauthenticated or ends one of its tasks leaves the context, the tasks
\* and the channels of every other connection, and the accept loop, as
\* they were
C27_OwnLogoutOnly ==
    /\ \A c \in Conns :
          /\ shutdown[c] => LogoutRequests(c) # {}
          /\ (rdr[c] = "done" \/ wtr[c] = "done" \/ mgr[c] = "done")
                => (LogoutRequests(c) # {} \/ client[c] = "closed")
    /\ \A v \in Verbs : wk[v].pc \notin {"returned_err", "returned_ok"}

LogoutStep(a) ==
    \/ /\ wk'["LOGOUT"] # wk["LOGOUT"]
       /\ \/ IsSome(wk["LOGOUT"].req) /\ Unwrap(wk["LOGOUT"].req).conn = a
          \/ IsSome(wk'["LOGOUT"].req) /\ Unwrap(wk'["LOGOUT"].req).conn = a
    \/ /\ applied'[a] # applied[a]
       /\ Last(applied'[a]).kind = "UNAUTH"
    \/ << rdr[a], wtr[a], mgr[a], shutdown[a] >>' # << rdr[a], wtr[a], mgr[a], shutdown[a] >>

C27_Frame ==
    \A a, b \in Conns :
        (a # b /\ LogoutStep(a)) =>
            /\ UNCHANGED << ctx[b], rdr[b], wtr[b], mgr[b], shutdown[b], client[b] >>
            /\ UNCHANGED << applied[b], evq[b], respq[b], sockOut[b] >>
            /\ UNCHANGED srv

C27_Cooperative == [] C27_OwnLogoutOnly /\ [][C27_Frame]_vars

\* one connection is shut down by its LOGOUT while the other is logged in
\* with its three tasks running
C27_Witness ==
    \E a, b \in Conns :
        /\ a # b
        /\ shutdown[a]
        /\ rdr[a] = "done"
        /\ IsAuthenticated(ctx[b])
        /\ rdr[b] # "done" /\ wtr[b] = "run" /\ mgr[b] = "run"

\* C28: when the mailbox service answers an authenticated SELECT with a
\* mailbox, the worker sends Selected(args[0]) on the request's event channel
\* and then one batch: "* {count} EXISTS" with the count of that mailbox,
\* UIDVALIDITY, UIDNEXT, FLAGS, PERMANENTFLAGS, "* LIST () "/" {args[0]}"
\* and last "{tag} OK [READ-WRITE] SELECT completed."
Data(words) == [tag |-> "*", status |-> "NONE", message |-> words]
UntaggedOk(text) == [tag |-> "*", status |-> "OK", message |-> << text >>]

SelectBatch(tag, count, name) ==
    << Data(<< ToString(count), "EXISTS" >>),
       UntaggedOk("[UIDVALIDITY 3857529045] UIDs valid"),
       UntaggedOk("[UIDNEXT 4392] Predicted next UID"),
       Data(<< "FLAGS", "(\\Answered \\Flagged \\Deleted \\Seen \\Draft)" >>),
       UntaggedOk("[PERMANENTFLAGS (\\Deleted \\Seen \\*)] Limited"),
       Data(<< "LIST", "() \"/\"", name >>),
       [tag |-> tag, status |-> "OK", message |-> << "[READ-WRITE] SELECT completed." >>] >>

SelectedEvent(r) ==
    [kind |-> "SELECT", user |-> None, folder |-> Some(r.command.args[1]), id |-> r.id]

C28_OnMailbox ==
    LET w == wk["SELECT"]
        r == Unwrap(w.req)
    IN  /\ ( /\ w.pc = "await_mailbox"
             /\ IsSome(mboxReply)
             /\ Unwrap(mboxReply).kind = "Ok"
             /\ wk'["SELECT"] # w )
           => /\ evq'[r.conn] = Append(evq[r.conn], SelectedEvent(r))
              /\ wk'["SELECT"] = Serving("respond", r, Unwrap(mboxReply).val)
              /\ UNCHANGED respq
        /\ ( w.pc = "respond" /\ wk'["SELECT"] # w )
           => /\ respq'[r.conn] =
                    Append(respq[r.conn],
                           [id |-> r.id,
                            lines |-> SelectBatch(r.command.tag, Unwrap(w.val).count,
                                                  r.command.args[1])])
              /\ UNCHANGED evq

C28_SelectBatches ==
    \A c \in Conns : \A r \in SelectRequests(c) : \A b \in BatchesOf(c, r.id) :
        (r.worker = "SELECT" /\ Len(b.lines) > 1) =>
            /\ IsAuthenticated(r.context)
            /\ \E count \in {0, 172} :
                  b.lines = SelectBatch(r.command.tag, count, r.command.args[1])
            /\ \E e \in Range(applied[c] \o evq[c]) : e = SelectedEvent(r)

C28_SelectSuccess == [] C28_SelectBatches /\ [][C28_OnMailbox]_vars

C28_Witness ==
    \E c \in Conns : \E r \in SelectRequests(c) : \E b \in BatchesOf(c, r.id) :
        /\ b.lines = SelectBatch(r.command.tag, 172, "INBOX")
        /\ Last(evq[c]) = SelectedEvent(r)

\* C29: when the mailbox service answers an authenticated SELECT with an
\* error, or drops the reply channel, the worker ends the request with the
\* single line "{tag} NO No such mailbox", sends no event and goes on to the
\* next request; such a request never has a Selected event, and the
\* selected folder of its connection stays as it was
NoSuchMailboxLine(r) ==
    [tag |-> r.command.tag, status |-> "NO", message |-> << "No such mailbox" >>]

C29_OnError ==
    LET w == wk["SELECT"]
        r == Unwrap(w.req)
    IN  ( /\ w.pc = "await_mailbox"
          /\ IsSome(mboxReply)
          /\ Unwrap(mboxReply).kind # "Ok"
          /\ wk'["SELECT"] # w )
        => /\ respq'[r.conn] = Append(respq[r.conn],
                                     [id |-> r.id, lines |-> << NoSuchMailboxLine(r) >>])
           /\ wk'["SELECT"] = Idle
           /\ UNCHANGED << evq, ctx >>

NoMailbox(c, r) == \E b \in BatchesOf(c, r.id) : b.lines = << NoSuchMailboxLine(r) >>

C29_NoEvent ==
    \A c \in Conns : \A r \in SelectRequests(c) :
        NoMailbox(c, r) =>
            /\ NumBatches(r) = 1
            /\ \A e \in Range(applied[c] \o evq[c]) : e.id # r.id
            /\ ctx[c].selected_folder = None

C29_LookupFailure == [] C29_NoEvent /\ [][C29_OnError]_vars

C29_Witness ==
    \E c \in Conns : \E r \in SelectRequests(c) :
        /\ NoMailbox(c, r)
        /\ IsAuthenticated(r.context)
        /\ r.command.args = << "Nope" >>
        /\ mailboxes = << >>

\* C30: get_mailbox of any ASCII-case variant of INBOX returns a mailbox,
\* never an error, in every state of the index
C30_InboxAlwaysFound ==
    \A i \in 1..Len(srv.lookups) :
        EqIgnoreAsciiCase("INBOX", srv.lookups[i].name) => srv.lookups[i].result.ok

\* ---------------------------------------------------------------- C31
\* the tokens of a buffer, read off the buffer's positions: a token starts
\* at a piece that is not the space and follows a space or the start, and
\* runs to the last piece before the next space or the end
TokenStarts(buf) ==
    { i \in 1..Len(buf) : buf[i] # " " /\ (i = 1 \/ buf[i - 1] = " ") }
NumTokens(buf) == Cardinality(TokenStarts(buf))
TokenStart(buf, n) ==
    CHOOSE i \in TokenStarts(buf) : Cardinality({ k \in TokenStarts(buf) : k < i }) = n - 1
TokenEnd(buf, n) ==
    CHOOSE j \in TokenStart(buf, n)..Len(buf) :
        /\ \A k \in TokenStart(buf, n)..j : buf[k] # " "
        /\ j = Len(buf) \/ buf[j + 1] = " "
Token(buf, n) == SubSeq(buf, TokenStart(buf, n), TokenEnd(buf, n))
CaseFold(token) ==
    [i \in 1..Len(token) |->
        IF token[i] \in {"capability", "CAPABILITY"} THEN "capability" ELSE token[i]]

\* C31 as claimed: for every buffer, parse fails exactly when the buffer
\* has fewer than two tokens (runs of bytes other than the space); when it
\* succeeds the tag is the first token, the verb the second token in one
\* case, and the arguments are the remaining tokens in order
C31_ParseTokens ==
    \A p \in Range(srv.parsed) :
        /\ p.result.ok <=> NumTokens(p.input) >= 2
        /\ p.result.ok =>
              /\ p.result.command.tag = Join(Token(p.input, 1))
              /\ p.result.command.verb = Join(CaseFold(Token(p.input, 2)))
              /\ p.result.command.args =
                    [i \in 1..(NumTokens(p.input) - 2) |-> Join(Token(p.input, i + 2))]

\* the tokens after the verb that are not the bare line feed, in order
ArgTokens(buf) ==
    SelectSeq([i \in 1..(NumTokens(buf) - 2) |-> Token(buf, i + 2)],
              LAMBDA t : t # << "\n" >>)
WithoutLineFeed(token) ==
    IF token[Len(token)] = "\n" THEN SubSeq(token, 1, Len(token) - 1) ELSE token

\* C31 as amended: parse fails exactly when the buffer has fewer than two
\* tokens or one of its tokens is not valid UTF-8; when it succeeds the tag
\* is the first token, the verb is the second token without its trailing
\* line feed and in lower case, and the arguments are the remaining tokens
\* in order, a token that is only the line feed left out
C31_ParseTokensUtf8 ==
    \A p \in Range(srv.parsed) :
        /\ p.result.ok <=>
              /\ NumTokens(p.input) >= 2
              /\ InvalidByte \notin Range(p.input)
        /\ p.result.ok =>
              /\ p.result.command.tag = Join(Token(p.input, 1))
              /\ p.result.command.verb = Join(CaseFold(WithoutLineFeed(Token(p.input, 2))))
              /\ p.result.command.args =
                    [i \in 1..Len(ArgTokens(p.input)) |-> Join(ArgTokens(p.input)[i])]

\* a buffer with a leading space and an upper-case verb: parsed, verb lowered
C31_Witness ==
    \E p \in Range(srv.parsed) :
        /\ p.input = << " ", "a1", " ", "CAPABILITY" >>
        /\ p.result.ok
        /\ p.result.command.verb = "capability"

\* ---------------------------------------------------------------- C32
\* C32: once the accept loop has ended and every connection task has
\* finished, the request channel of every worker is closed, every worker
\* leaves its loop with Ok and the server's wait for the workers ends
ConnectionsFinished ==
    /\ srv.phase = "awaiting_connections"
    /\ \A c \in Conns : Closed(c)
C33_UniqueNames ==
    /\ \A u1, u2 \in srv.users : u1.name = u2.name => u1 = u2
    /\ \A call \in Range(srv.userCalls) :
          /\ call.op = "add" =>
                IF \E u \in call.before : u.name = call.user.name
                THEN ~call.ok /\ srv.users = call.before
                ELSE /\ call.ok
                     /\ srv.users = call.before \cup { call.user }
          /\ call.op = "get" =>
                /\ srv.users = call.before
                /\ \A u \in srv.users : u.name = call.user.name => call.found = Some(u)
                /\ (\A u \in srv.users : u.name # call.user.name) => call.found = None

\* alice is stored with one password and an add of alice with another
\* password has been refused
C33_Witness ==
    \E call \in Range(srv.userCalls) :
        /\ call.op = "add"
        /\ ~call.ok
        /\ call.user = User("alice", "pw2")
        /\ User("alice", "pw1") \in srv.users

\* ---------------------------------------------------------------- C34
\* C34: in every reachable state the session context of a connection with
\* a selected folder has an authenticated user
C34_SelectedImpliesAuthenticated ==
    \A c \in Conns : IsSelected(ctx[c]) => IsAuthenticated(ctx[c])

\* ---------------------------------------------------------------- C35
\* the lines written to the socket, in order, each with the request it
\* answers
RECURSIVE WireOf(_)
WireOf(batches) ==
    IF batches = << >> THEN << >>
    ELSE [i \in 1..Len(Head(batches).lines) |->
             [id |-> Head(batches).id, line |-> Head(batches).lines[i]]]
         \o WireOf(Tail(batches))

\* C35: the lines of a response batch are written contiguously and in
\* batch order: between two lines answering the same command no line of
\* another command is written, and no line of a command follows its tagged
\* status line
C35_BatchContiguous ==
    \A c \in Conns :
        LET w == WireOf(sockOut[c]) IN
        \A j \in 2..Len(w) :
            /\ (\E i \in 1..(j - 1) : w[i].id = w[j].id) => w[j - 1].id = w[j].id
            /\ w[j - 1].id = w[j].id => IsUntaggedLine(w[j - 1].line)

\* the seven lines of a SELECT and the two lines of a FETCH, served by two
\* workers for one connection, are both on the socket
C35_Witness ==
    \E c \in Conns : \E p, q \in 1..Len(sockOut[c]) :
        /\ q = p + 1
        /\ Len(sockOut[c][p].lines) = 7
        /\ Len(sockOut[c][q].lines) = 2

\* ---------------------------------------------------------------- C36
\* C36: with the workers shared by two connections, the batches and events
\* on the channels of a connection are those of its own requests: each
\* answers a request its reader dispatched, at most one batch per request,
\* a LOGIN welcome names the user of that request's LOGIN, an event comes
\* from a request of the verb that emits it, an Authenticated event carries
\* the user named in that LOGIN, and a connection is authenticated only as
\* a user one of its own LOGIN commands named
C36_OwnBatches ==
    \A c \in Conns :
        /\ \A b \in Answers(c) :
              /\ b.id \in 1..Len(reqs[c])
              /\ \A name \in {"alice", "bob"} :
                    Last(b.lines).message = << "LOGIN completed. Welcome", name, "." >> =>
                        /\ reqs[c][b.id].command.verb = "LOGIN"
                        /\ NumArgs(reqs[c][b.id].command) >= 1
                        /\ StripQuotes(Arg(reqs[c][b.id].command, 1)) = name
        /\ \A i, j \in 1..Len(AllBatches(c)) :
              (AllBatches(c)[i].id = AllBatches(c)[j].id) => i = j
C36_OwnEvents ==
    \A c \in Conns :
        /\ \A e \in Range(AllEvents(c)) :
              /\ e.id \in 1..Len(reqs[c])
              /\ e.kind = "AUTH" =>
                    /\ reqs[c][e.id].command.verb = "LOGIN"
                    /\ Unwrap(e.user).name = StripQuotes(Arg(reqs[c][e.id].command, 1))
              /\ e.kind = "UNAUTH" => reqs[c][e.id].command.verb = "LOGOUT"
              /\ e.kind = "SELECT" => reqs[c][e.id].command.verb = "SELECT"
        /\ IsAuthenticated(ctx[c]) =>
              \E r \in LoginRequests(c) :
                  /\ NumArgs(r.command) >= 2
                  /\ StripQuotes(Arg(r.command, 1)) = Unwrap(ctx[c].user).name
C37_BothGetInbox ==
    (\A t \in Tasks : srv.tasks[t].pc = "done" /\ srv.tasks[t].name = "INBOX") =>
        /\ \A t \in Tasks : srv.tasks[t].result.ok
        /\ "INBOX" \in DOMAIN mailboxes

\* ---------------------------------------------------------------- C38
\* C38: the authenticator answers the requests it has consumed once each
\* and in the order they arrived; the answer is the stored user when the
\* name is stored and the password matches its hash, UserDoesNotExist when
\* the name is not stored, AuthenticationFailed otherwise; start returns
\* only on the closed and drained channel, and then it returns Ok
C38_AnsweredInOrder ==
    /\ \A i \in 1..Len(srv.auth.answered) : srv.auth.answered[i].oneshot = i
    /\ \A i \in 1..Len(srv.auth.queue) :
          srv.auth.queue[i].oneshot = Len(srv.auth.answered) + i
    /\ Len(srv.auth.answered) + Len(srv.auth.queue) = srv.auth.sent
C38_Answers ==
    \A a \in Range(srv.auth.answered) :
        LET stored == { u \in UserStore : u.name = a.principal.username } IN
        /\ stored = {} => a.result = AuthErr("UserDoesNotExist")
        /\ \A u \in stored :
              IF u.password_hash = Hash(a.principal.password)
              THEN a.result = AuthOk(u)
              ELSE a.result = AuthErr("AuthenticationFailed")
C38_ReturnsOk ==
    srv.auth.pc # "running" =>
        /\ srv.auth.pc = "returned_ok"
        /\ srv.auth.closed
        /\ srv.auth.queue = << >>
IterationStep ==
    srv.last' # srv.last \/ srv.wire' # srv.wire \/ srv.open' # srv.open

\* C39: an iteration that finds the last successful handle older than the
\* timeout ends the loop; otherwise a successful handle keeps the loop
\* running and sets the staleness clock to now, WouldBlock and TimedOut
\* keep it running and leave the clock, and any other error ends the loop
C39_Iteration ==
    IterationStep =>
        IF srv.clock.now - srv.clock.last_read > StaleTimeout
        THEN ~srv.open' /\ srv.last'.outcome = "Stale"
        ELSE /\ srv.last'.outcome = "Ok" =>
                  srv.open' /\ srv.clock.last_read' = srv.clock.now
             /\ srv.last'.outcome \in {"WouldBlock", "TimedOut"} =>
                  srv.open' /\ srv.clock.last_read' = srv.clock.last_read
             /\ srv.last'.outcome \in {"ConnectionAborted", "InvalidData"} => ~srv.open'
\* the loop has ended only on a stale connection or on an error that is
\* not ignored, the empty read of a closed peer among them; a stale end
\* comes more than the timeout after the last successful handle
C39_LoopEnd ==
    /\ ~srv.open =>
          \/ srv.last.outcome = "Stale" /\ srv.last.at - srv.clock.last_read > StaleTimeout
          \/ srv.last.outcome = "InvalidData"
          \/ srv.last.outcome = "ConnectionAborted" /\ srv.peer = "closed" /\ srv.sock = << >>
    /\ srv.open => srv.last.outcome \in {"none", "Ok", "WouldBlock", "TimedOut"}
C39_ServingLoop == [] C39_LoopEnd /\ [][C39_Iteration]_vars

\* a line was handled, the peer stayed silent and connected, reads timed
\* out, and the loop ended as stale
C39_Witness ==
    /\ ~srv.open
    /\ srv.last.outcome = "Stale"
    /\ srv.peer = "open"
    /\ Len(srv.wire) = 1
    /\ srv.clock.last_read = 1

\* ---------------------------------------------------------------- C40
\* the writers spawned for a name whose disconnect message the broker has
\* not yet processed
LiveWriters(name) ==
    { c \in PeerConns : ReceiverAlive(c) /\ srv.broker.name[c] = name }
DisconnectsOf(c) ==
    { i \in 1..Len(srv.broker.disconnects) : srv.broker.disconnects[i].conn = c }

\* C40: while broker_loop runs, a name is in peers exactly while a writer
\* spawned for it has not had its disconnect message processed, and the
\* registered sender is that writer's
C40_PeersWhileWriter ==
    srv.broker.pc = "loop" =>
        \A name \in PeerNames :
            /\ name \in DOMAIN srv.broker.peers <=> LiveWriters(name) # {}
            /\ name \in DOMAIN srv.broker.peers =>
                  LiveWriters(name) = { srv.broker.peers[name] }
\* a writer that has ended has sent one disconnect message, no other has
C40_OneDisconnect ==
    \A c \in PeerConns :
        Cardinality(DisconnectsOf(c)) = IF srv.broker.writer[c] = "ended" THEN 1 ELSE 0
\* the assertion on peers.remove has held and no send to a peer has failed
C40_NoPanic == ~srv.broker.assertFailed /\ ~srv.broker.sendFailed
\* a registered sender is not replaced: it stays until its name is removed
C40_SenderKept ==
    \A name \in DOMAIN srv.broker.peers :
        name \in DOMAIN srv.broker.peers' => srv.broker.peers'[name] = srv.broker.peers[name]
C40_Broker ==
    /\ [](C40_PeersWhileWriter /\ C40_OneDisconnect /\ C40_NoPanic)
    /\ [][C40_SenderKept]_vars

\* two connections gave the name x: the first was registered and has been
\* removed on its disconnect, the second never got a writer
C40_Witness ==
    /\ srv.broker.pc = "loop"
    /\ srv.broker.name[1] = "x" /\ srv.broker.name[2] = "x"
    /\ srv.broker.writer[1] = "gone"
    /\ srv.broker.writer[2] = "none"
    /\ srv.broker.reader[2] = "named"
    /\ srv.broker.events = << >>
    /\ "x" \notin DOMAIN srv.broker.peers

====
